---- MODULE Spec2Model ----
(***************************************************************************)
(* Model of the SandGraphX trading demo: the decision engine               *)
(* (LLMDecisionMaker in src/demo/trading_demo.py), the loop driver         *)
(* (run_rl_trading_demo) and the shared generation service they call       *)
(* (SharedLLMManager in src/sandgraph/core/llm_interface.py).              *)
(*                                                                         *)
(* Representation.                                                         *)
(*  - A response text is a sequence of tokens.  "mairu" and "maichu"       *)
(*    stand for the two Chinese keywords of _parse_decision (buy, sell);   *)
(*    `kw in response` is "some token of the text holds kw".               *)
(*  - A Python dict is a function; dict.get(k, v) is Get(d, k, v).  A      *)
(*    dict whose iteration order matters (market_data) is a sequence of    *)
(*    [symbol, data] entries in insertion order.                           *)
(*  - Prices, quantities and amounts are integers.  A score is the exact   *)
(*    rational <<numerator, denominator>> of the float the code computes.  *)
(*  - A call's outcome is [kind |-> "return", ...] or                      *)
(*    [kind |-> "raise", exc |-> <exception type>].                        *)
(***************************************************************************)
EXTENDS Integers, Sequences, FiniteSets, TLC

VARIABLES
    decision_count,     \* LLMDecisionMaker.decision_count
    decision_history,   \* LLMDecisionMaker.decision_history
    market_history,     \* LLMDecisionMaker.market_history
    portfolio_history,  \* LLMDecisionMaker.portfolio_history
    last_call,          \* the last make_decision call: its input and its outcome
    gen_raised,         \* how many generate_for_node calls of make_decision raised
    step,               \* run_rl_trading_demo: the loop variable `step`
    pc,                 \* run_rl_trading_demo: the driver's position in the iteration
    current_state,      \* run_rl_trading_demo: case["state"] of this iteration
    decision_result,    \* run_rl_trading_demo: what make_decision gave this iteration
    results,            \* run_rl_trading_demo: the `results` list
    frame,              \* run_rl_trading_demo: score, reward, state_features of this iteration
    experiences,        \* the (state, action, reward, done) tuples given to add_experience
    outer_errors,       \* iterations that ended in the per-step handler (line 850)
    fn_in,              \* input of the pure function under check
    fn_out,             \* its outcome
    registered_nodes,   \* SharedLLMManager.registered_nodes: node id -> config
    node_usage_stats,   \* SharedLLMManager.node_usage_stats: node id -> generation_count
    total_generations,  \* SharedLLMManager.total_generations
    total_updates,      \* SharedLLMManager.total_updates
    lock,               \* SharedLLMManager.lock: the thread holding it, 0 when free
    llm_lock,           \* the backend's self.lock: the thread holding it, 0 when free
    llm,                \* the backend's model_loaded, model and tokenizer
    threads             \* the threads calling the manager: position, call and arguments

engine_vars ==
    <<decision_count, decision_history, market_history, portfolio_history, last_call, gen_raised>>
driver_vars ==
    <<step, pc, current_state, decision_result, frame, results, experiences, outer_errors>>
fn_vars == <<fn_in, fn_out>>
service_vars ==
    <<registered_nodes, node_usage_stats, total_generations, total_updates, lock, llm_lock, llm,
      threads>>
vars == <<engine_vars, driver_vars, fn_vars, service_vars>>

----------------------------------------------------------------------------
(* Python values *)

None == "None"

\* dict.get(key, default)
Get(d, key, default) == IF key \in DOMAIN d THEN d[key] ELSE default

EmptyDict == <<>>

Range(s) == {s[i] : i \in DOMAIN s}

Min(a, b) == IF a <= b THEN a ELSE b

Return(v) == [kind |-> "return", value |-> v]

Raise(e) == [kind |-> "raise", exc |-> e]

----------------------------------------------------------------------------
(* Ordered dicts: market_data *)

\* list(market_data.keys())
Keys(md) == [i \in DOMAIN md |-> md[i].symbol]

\* symbol in market_data
HasKey(md, s) == \E i \in DOMAIN md : md[i].symbol = s

\* market_data[symbol]
Item(md, s) == md[CHOOSE i \in DOMAIN md : md[i].symbol = s].data

----------------------------------------------------------------------------
(* Response texts *)

\* str.upper() of one token
TokenUpper(tok) ==
    CASE tok = "buy" -> "BUY"
      [] tok = "sell" -> "SELL"
      [] tok = "aapl" -> "AAPL"
      [] tok = "hold" -> "HOLD"
      [] OTHER -> tok

\* response.upper()
Upper(text) == [i \in DOMAIN text |-> TokenUpper(text[i])]

\* `word in response`
Contains(text, word) == \E i \in DOMAIN text : text[i] = word

\* Whether re.search(r'(\d+(?:\.\d+)?)', token) matches in a token
TokenHasNumber(tok) == tok \in {"0", "150", "75", "MA5", "5", "10", "60", "105"}

\* float(amount_match.group(1)) for a token the pattern matches in
TokenNumber(tok) ==
    CASE tok = "0" -> 0
      [] tok = "150" -> 150
      [] tok = "75" -> 75
      [] tok = "MA5" -> 5
      [] tok = "5" -> 5
      [] tok = "10" -> 10
      [] tok = "60" -> 60
      [] tok = "105" -> 105

DefaultAmount == 100

\* Mutant of ExtractAmount: the number has to be a word of its own
ExtractAmountWholeWord(text) ==
    IF \E i \in DOMAIN text : text[i] \in {"0", "150", "75"}
    THEN LET first == CHOOSE i \in DOMAIN text :
                          /\ text[i] \in {"0", "150", "75"}
                          /\ \A j \in 1..(i - 1) : text[j] \notin {"0", "150", "75"}
         IN  TokenNumber(text[first])
    ELSE DefaultAmount

\* amount_match = re.search(...); float(amount_match.group(1)) if amount_match else 100
ExtractAmount(text) ==
    IF \E i \in DOMAIN text : TokenHasNumber(text[i])
    THEN LET first == CHOOSE i \in DOMAIN text :
                          /\ TokenHasNumber(text[i])
                          /\ \A j \in 1..(i - 1) : ~TokenHasNumber(text[j])
         IN  TokenNumber(text[first])
    ELSE DefaultAmount

Action(kind, symbol, amount, reasoning) ==
    [action |-> kind, symbol |-> symbol, amount |-> amount, reasoning |-> reasoning]

----------------------------------------------------------------------------
(* Scores: exact rationals <<n, d>>, d > 0 *)

RatGt(a, b) == a[1] * b[2] > b[1] * a[2]

\* best_buy_score = -1, best_sell_score = -1
InitialScore == <<-1, 1>>

\* the 0.3 of `best_buy_score > 0.3` and `best_sell_score > 0.3`
Threshold == <<3, 10>>

\* buy_score of one symbol: 0.3 if rsi < 70, + 0.4 if ma5 > ma20,
\* + min(0.3, (ma5 - ma20) / ma20 * 10) if ma5 > 0 and ma20 > 0
BuyScore(indicators) ==
    LET rsi == Get(indicators, "rsi", 50)
        ma5 == Get(indicators, "ma5", 0)
        ma20 == Get(indicators, "ma20", 0)
        base == (IF rsi < 70 THEN 3 ELSE 0) + (IF ma5 > ma20 THEN 4 ELSE 0)
    IN  IF ma5 > 0 /\ ma20 > 0
        THEN <<base * ma20 + Min(3 * ma20, 100 * (ma5 - ma20)), 10 * ma20>>
        ELSE <<base, 10>>

\* sell_score of one symbol: 0.3 if rsi > 30, + 0.4 if ma5 < ma20,
\* + min(0.3, (ma20 - ma5) / ma20 * 10) if ma5 > 0 and ma20 > 0
SellScore(indicators) ==
    LET rsi == Get(indicators, "rsi", 50)
        ma5 == Get(indicators, "ma5", 0)
        ma20 == Get(indicators, "ma20", 0)
        base == (IF rsi > 30 THEN 3 ELSE 0) + (IF ma5 < ma20 THEN 4 ELSE 0)
    IN  IF ma5 > 0 /\ ma20 > 0
        THEN <<base * ma20 + Min(3 * ma20, 100 * (ma20 - ma5)), 10 * ma20>>
        ELSE <<base, 10>>

\* state.get("technical_indicators", {}).get(symbol, {})
Indicators(state, symbol) ==
    Get(Get(state, "technical_indicators", EmptyDict), symbol, EmptyDict)

NoBest ==
    [buy_symbol |-> None, buy_score |-> InitialScore,
     sell_symbol |-> None, sell_score |-> InitialScore, raised |-> FALSE]

\* Mutant of UpdateBest: a later symbol takes over on a tie
UpdateBestOnTie(best, symbol, indicators) ==
    LET b == BuyScore(indicators)
        s == SellScore(indicators)
    IN  [best EXCEPT
            !.buy_symbol = IF ~RatGt(best.buy_score, b) THEN symbol ELSE @,
            !.buy_score = IF ~RatGt(best.buy_score, b) THEN b ELSE @,
            !.sell_symbol = IF ~RatGt(best.sell_score, s) THEN symbol ELSE @,
            !.sell_score = IF ~RatGt(best.sell_score, s) THEN s ELSE @]

\* "update best choice": strict comparisons keep the earlier symbol on a tie
UpdateBest(best, symbol, indicators) ==
    LET b == BuyScore(indicators)
        s == SellScore(indicators)
    IN  [best EXCEPT
            !.buy_symbol = IF RatGt(b, best.buy_score) THEN symbol ELSE @,
            !.buy_score = IF RatGt(b, best.buy_score) THEN b ELSE @,
            !.sell_symbol = IF RatGt(s, best.sell_score) THEN symbol ELSE @,
            !.sell_score = IF RatGt(s, best.sell_score) THEN s ELSE @]

\* market_data[s].get("close", 0) - market_data[s].get("open", 0)
Gain(data) == Get(data, "close", 0) - Get(data, "open", 0)

\* Mutant of BestGainSymbol: min instead of max
BestGainSymbolMin(md) ==
    LET i == CHOOSE k \in DOMAIN md :
                 /\ \A j \in DOMAIN md : Gain(md[j].data) >= Gain(md[k].data)
                 /\ \A j \in 1..(k - 1) : Gain(md[j].data) > Gain(md[k].data)
    IN  md[i].symbol

\* Mutant of BestGainSymbol: the last key of maximal gain
BestGainSymbolLast(md) ==
    LET i == CHOOSE k \in DOMAIN md :
                 /\ \A j \in DOMAIN md : Gain(md[j].data) <= Gain(md[k].data)
                 /\ \A j \in (k + 1)..Len(md) : Gain(md[j].data) < Gain(md[k].data)
    IN  md[i].symbol

\* max(market_data.keys(), key=gain): the first key, in dict order, of maximal gain
BestGainSymbol(md) ==
    LET i == CHOOSE k \in DOMAIN md :
                 /\ \A j \in DOMAIN md : Gain(md[j].data) <= Gain(md[k].data)
                 /\ \A j \in 1..(k - 1) : Gain(md[j].data) < Gain(md[k].data)
    IN  md[i].symbol
----------------------------------------------------------------------------
(* LLMDecisionMaker._parse_decision *)

\* state.get("symbols", ["AAPL", "GOOGL", "MSFT", "AMZN"])
DefaultSymbols == <<"AAPL", "GOOGL", "MSFT", "AMZN">>

\* `for symbol in symbols: if symbol in text:` finds a symbol
AnySymbolIn(symbols, text) == \E i \in DOMAIN symbols : Contains(text, symbols[i])

\* Mutant of FirstSymbolIn: the listed symbol that comes first in the text
FirstSymbolByTextOrder(symbols, text) ==
    LET p == CHOOSE k \in DOMAIN text :
                 /\ \E i \in DOMAIN symbols : symbols[i] = text[k]
                 /\ \A j \in 1..(k - 1) : \A i \in DOMAIN symbols : symbols[i] # text[j]
    IN  text[p]

\* the symbol that loop returns with: the first of the list that the text holds
FirstSymbolIn(symbols, text) ==
    LET i == CHOOSE k \in DOMAIN symbols :
                 /\ Contains(text, symbols[k])
                 /\ \A j \in 1..(k - 1) : ~Contains(text, symbols[j])
    IN  symbols[i]

\* The loop of step 3 from position i on: per symbol of `symbols` that is a key
\* of market_data, read its indicators and its close (a KeyError without one),
\* score it and update the best choices.
RECURSIVE ParseScan(_, _, _, _)
ParseScan(symbols, state, i, best) ==
    IF i > Len(symbols) THEN best
    ELSE LET symbol == symbols[i]
             market_data == Get(state, "market_data", EmptyDict)
         IN  IF ~HasKey(market_data, symbol)
             THEN ParseScan(symbols, state, i + 1, best)
             ELSE IF "close" \notin DOMAIN Item(market_data, symbol)
             THEN [best EXCEPT !.raised = TRUE]
             ELSE ParseScan(symbols, state, i + 1,
                            UpdateBest(best, symbol, Indicators(state, symbol)))

\* Mutant of ParseCascade: without market data scores, the cascade trades
\* against the engine's previous decision
ParseCascadeContrarian(state) ==
    LET symbols == Get(state, "symbols", DefaultSymbols)
    IN  IF decision_history # <<>> /\ symbols # <<>>
        THEN Return(Action(IF decision_history[Len(decision_history)].decision.action = "BUY"
                           THEN "SELL" ELSE "BUY",
                           symbols[1], DefaultAmount, "contrarian"))
        ELSE IF symbols # <<>>
        THEN Return(Action("BUY", symbols[1], DefaultAmount, "backup-first-symbol"))
        ELSE Return(Action("BUY", "AAPL", DefaultAmount, "error-default"))

\* Steps 3 to 6 of _parse_decision: the text matched no keyword with a symbol
ParseCascade(state) ==
    LET symbols == Get(state, "symbols", DefaultSymbols)
        market_data == Get(state, "market_data", EmptyDict)
        best == ParseScan(symbols, state, 1, NoBest)
    IN  IF market_data # EmptyDict /\ best.raised
        THEN Raise("KeyError")
        ELSE IF /\ market_data # EmptyDict
                /\ RatGt(best.buy_score, best.sell_score)
                /\ RatGt(best.buy_score, Threshold)
        THEN Return(Action("BUY", best.buy_symbol, DefaultAmount, "technical-buy"))
        ELSE IF market_data # EmptyDict /\ RatGt(best.sell_score, Threshold)
        THEN Return(Action("SELL", best.sell_symbol, DefaultAmount, "technical-sell"))
        ELSE IF market_data # EmptyDict
        THEN Return(Action("BUY", BestGainSymbol(market_data), DefaultAmount, "forced-best-gain"))
        ELSE IF symbols # <<>>
        THEN Return(Action("BUY", symbols[1], DefaultAmount, "backup-first-symbol"))
        ELSE Return(Action("BUY", "AAPL", DefaultAmount, "error-default"))

\* Mutant of ParseDecision: the two English branches before the two Chinese ones
ParseDecisionEnglishFirst(response, state) ==
    LET symbols == Get(state, "symbols", DefaultSymbols)
        response_upper == Upper(response)
    IN  IF Contains(response_upper, "BUY") /\ AnySymbolIn(symbols, response_upper)
        THEN Return(Action("BUY", FirstSymbolIn(symbols, response_upper),
                           ExtractAmount(response), response))
        ELSE IF Contains(response_upper, "SELL") /\ AnySymbolIn(symbols, response_upper)
        THEN Return(Action("SELL", FirstSymbolIn(symbols, response_upper),
                           ExtractAmount(response), response))
        ELSE IF Contains(response, "mairu") /\ AnySymbolIn(symbols, response)
        THEN Return(Action("BUY", FirstSymbolIn(symbols, response),
                           ExtractAmount(response), response))
        ELSE IF Contains(response, "maichu") /\ AnySymbolIn(symbols, response)
        THEN Return(Action("SELL", FirstSymbolIn(symbols, response),
                           ExtractAmount(response), response))
        ELSE ParseCascade(state)

\* _parse_decision(response, state)
ParseDecision(response, state) ==
    LET symbols == Get(state, "symbols", DefaultSymbols)
        response_upper == Upper(response)
    IN  IF Contains(response, "mairu") /\ AnySymbolIn(symbols, response)
        THEN Return(Action("BUY", FirstSymbolIn(symbols, response),
                           ExtractAmount(response), response))
        ELSE IF Contains(response, "maichu") /\ AnySymbolIn(symbols, response)
        THEN Return(Action("SELL", FirstSymbolIn(symbols, response),
                           ExtractAmount(response), response))
        ELSE IF Contains(response_upper, "BUY") /\ AnySymbolIn(symbols, response_upper)
        THEN Return(Action("BUY", FirstSymbolIn(symbols, response_upper),
                           ExtractAmount(response), response))
        ELSE IF Contains(response_upper, "SELL") /\ AnySymbolIn(symbols, response_upper)
        THEN Return(Action("SELL", FirstSymbolIn(symbols, response_upper),
                           ExtractAmount(response), response))
        ELSE ParseCascade(state)

----------------------------------------------------------------------------
(* LLMDecisionMaker._fallback_decision *)

\* The scoring loop of _fallback_decision over list(market_data.keys())
RECURSIVE FallbackScan(_, _, _, _)
FallbackScan(symbols, state, i, best) ==
    IF i > Len(symbols) THEN best
    ELSE FallbackScan(symbols, state, i + 1,
                      UpdateBest(best, symbols[i], Indicators(state, symbols[i])))

\* _fallback_decision(state)
FallbackDecision(state) ==
    LET market_data == Get(state, "market_data", EmptyDict)
    IN  IF market_data = EmptyDict
        THEN LET symbols == Get(state, "symbols", DefaultSymbols)
             IN  IF symbols = <<>>
                 THEN Raise("IndexError")
                 ELSE Return(Action("BUY", symbols[1], DefaultAmount, "fallback-no-market-data"))
        ELSE LET symbols == Keys(market_data)
                 best == FallbackScan(symbols, state, 1, NoBest)
             IN  IF symbols = <<>>
                 THEN Return(Action("BUY", "AAPL", DefaultAmount, "fallback-default"))
                 ELSE IF /\ RatGt(best.buy_score, best.sell_score)
                         /\ RatGt(best.buy_score, Threshold)
                 THEN Return(Action("BUY", best.buy_symbol, DefaultAmount, "fallback-technical-buy"))
                 ELSE IF RatGt(best.sell_score, Threshold)
                 THEN Return(Action("SELL", best.sell_symbol, DefaultAmount, "fallback-technical-sell"))
                 ELSE Return(Action("BUY", BestGainSymbol(market_data), DefaultAmount,
                                    "fallback-best-gain"))

----------------------------------------------------------------------------
(* Portfolio valuation *)

\* Mutant of PositionValue: a held symbol without a price counts at price 1
RECURSIVE PositionValueUnpriced(_, _, _)
PositionValueUnpriced(positions, market_data, todo) ==
    IF todo = {} THEN 0
    ELSE LET symbol == CHOOSE s \in todo : TRUE
             rest == PositionValueUnpriced(positions, market_data, todo \ {symbol})
         IN  IF HasKey(market_data, symbol) /\ "close" \in DOMAIN Item(market_data, symbol)
             THEN positions[symbol] * Item(market_data, symbol)["close"] + rest
             ELSE positions[symbol] + rest

\* position_value: the sum, over the held symbols that the snapshot prices with
\* a close, of amount * close
RECURSIVE PositionValue(_, _, _)
PositionValue(positions, market_data, todo) ==
    IF todo = {} THEN 0
    ELSE LET symbol == CHOOSE s \in todo : TRUE
             rest == PositionValue(positions, market_data, todo \ {symbol})
         IN  IF HasKey(market_data, symbol) /\ "close" \in DOMAIN Item(market_data, symbol)
             THEN positions[symbol] * Item(market_data, symbol)["close"] + rest
             ELSE rest

\* LLMDecisionMaker._calculate_total_portfolio_value(state)
CalculateTotalPortfolioValue(state) ==
    LET portfolio == Get(state, "portfolio", EmptyDict)
        market_data == Get(state, "market_data", EmptyDict)
        cash == Get(portfolio, "cash", 0)
        positions == Get(portfolio, "positions", EmptyDict)
    IN  cash + PositionValue(positions, market_data, DOMAIN positions)

\* _calculate_portfolio_value(state): the module-level function, which indexes
\* where the method uses get
CalculatePortfolioValue(state) ==
    IF \/ "portfolio" \notin DOMAIN state
       \/ "cash" \notin DOMAIN state["portfolio"]
       \/ "positions" \notin DOMAIN state["portfolio"]
       \/ "market_data" \notin DOMAIN state
    THEN Raise("KeyError")
    ELSE LET positions == state["portfolio"]["positions"]
         IN  Return(state["portfolio"]["cash"]
                    + PositionValue(positions, state["market_data"], DOMAIN positions))
----------------------------------------------------------------------------
(* LLMDecisionMaker: history and make_decision *)

\* `if len(self.decision_history) > 50`
DecisionHistoryCap == 50

\* `if len(self.market_history) > 30`, `if len(self.portfolio_history) > 30`
HistoryCap == 30

\* Mutant of Trim: history[:cap], which drops the newest record
TrimKeepOldest(history, cap) ==
    IF Len(history) > cap THEN SubSeq(history, 1, cap) ELSE history

\* history[-cap:] when len(history) > cap
Trim(history, cap) ==
    IF Len(history) > cap
    THEN SubSeq(history, Len(history) - cap + 1, Len(history))
    ELSE history

\* decision_record (its wall-clock timestamp is left out)
DecisionRecord(count, state, decision, llm_response) ==
    [step |-> count,
     decision |-> decision,
     llm_response |-> llm_response,
     market_data |-> Get(state, "market_data", EmptyDict),
     portfolio |-> Get(state, "portfolio", EmptyDict),
     technical_indicators |-> Get(state, "technical_indicators", EmptyDict),
     detailed_history |-> Get(state, "detailed_history", EmptyDict)]

\* market_record
MarketRecord(count, state) ==
    [step |-> count,
     market_data |-> Get(state, "market_data", EmptyDict),
     detailed_history |-> Get(state, "detailed_history", EmptyDict)]

\* portfolio_record
PortfolioRecord(count, state) ==
    [step |-> count,
     portfolio |-> Get(state, "portfolio", EmptyDict),
     total_value |-> CalculateTotalPortfolioValue(state)]

\* _update_history(state, decision, llm_response), with self.decision_count = count
UpdateHistory(count, state, decision, llm_response) ==
    /\ decision_history' =
           Trim(Append(decision_history, DecisionRecord(count, state, decision, llm_response)),
                DecisionHistoryCap)
    /\ market_history' = Trim(Append(market_history, MarketRecord(count, state)), HistoryCap)
    /\ portfolio_history' =
           Trim(Append(portfolio_history, PortfolioRecord(count, state)), HistoryCap)

\* Mutant of SkipHistory: the market snapshot of the call is recorded all the same
SkipHistoryButMarket(count, state) ==
    /\ market_history' = Trim(Append(market_history, MarketRecord(count, state)), HistoryCap)
    /\ UNCHANGED <<decision_history, portfolio_history>>

\* make_decision leaves through its except branch, or through an exception,
\* before its _update_history call
SkipHistory(count, state) == UNCHANGED <<decision_history, market_history, portfolio_history>>

\* What make_decision(state) gives its caller when generate_for_node ends as `gen`:
\* the fallback's action itself when the generation raised, the result dict
\* around the parsed action otherwise; an exception of _fallback_decision or of
\* _parse_decision leaves make_decision.
MakeDecisionOutcome(count, state, gen) ==
    IF gen.kind = "raise"
    THEN FallbackDecision(state)
    ELSE LET parsed == ParseDecision(gen.value, state)
         IN  IF parsed.kind = "raise"
             THEN parsed
             ELSE Return([decision |-> parsed.value,
                          llm_response |-> gen.value,
                          decision_count |-> count])

\* How many portfolio snapshots _construct_decision_prompt lists
PromptWindow == 10

\* The lines of portfolio_history_summary in the prompt, after its heading: the
\* last PromptWindow records, each with its step and total value, and from the
\* second listed record on the change in percent (an exact rational) against
\* the record listed before it, when that one's value is positive
PortfolioHistorySummary(history) ==
    LET recent_portfolios ==
            SubSeq(history, Len(history) - Min(Len(history), PromptWindow) + 1, Len(history))
    IN  [i \in DOMAIN recent_portfolios |->
            LET record == recent_portfolios[i]
                line == [step |-> record.step, total_value |-> record.total_value]
            IN  IF i > 1 /\ recent_portfolios[i - 1].total_value > 0
                THEN [step |-> record.step,
                      total_value |-> record.total_value,
                      change_pct |->
                          <<(record.total_value - recent_portfolios[i - 1].total_value) * 100,
                            recent_portfolios[i - 1].total_value>>]
                ELSE line]

\* f"{close:.2f}" as a word of the prompt, for the closes of the snapshots
PriceWord(close) ==
    CASE close = 0 -> "0"
      [] close = 5 -> "5"
      [] close = 60 -> "60"
      [] close = 105 -> "105"

\* The elements of a set of words, one after the other
RECURSIVE WordsOf(_)
WordsOf(S) ==
    IF S = {} THEN <<>>
    ELSE LET w == CHOOSE x \in S : TRUE
         IN  <<w>> \o WordsOf(S \ {w})

\* market_summary: per snapshot entry its symbol and, first of its numbers,
\* its close
RECURSIVE MarketSummary(_, _)
MarketSummary(md, i) ==
    IF i > Len(md) THEN <<>>
    ELSE <<md[i].symbol, PriceWord(Get(md[i].data, "close", 0))>> \o MarketSummary(md, i + 1)

\* technical_summary: per symbol with indicators the symbol and, first of its
\* numbers, the 5 of "MA5="
RECURSIVE TechnicalSummary(_)
TechnicalSummary(symbols) ==
    IF symbols = <<>> THEN <<>>
    ELSE <<symbols[1], "MA5">> \o TechnicalSummary(Tail(symbols))

\* _construct_decision_prompt(state) of an engine without history, for a state
\* without price, trade and detailed history: of its text the keywords and
\* symbols, in their order, and before each the first number since the last
\* one: the opening sentence ("BUY or SELL"), the market and the indicator
\* summaries, the heading "Past 10 Days", the positions, the instructions and
\* the examples "BUY AAPL 150 shares, SELL GOOGL 75 shares"
ConstructDecisionPrompt(state) ==
    <<"BUY", "SELL">>
        \o MarketSummary(Get(state, "market_data", EmptyDict), 1)
        \o TechnicalSummary(WordsOf(DOMAIN Get(state, "technical_indicators", EmptyDict)))
        \o <<"10">>
        \o WordsOf(DOMAIN Get(Get(state, "portfolio", EmptyDict), "positions", EmptyDict))
        \o <<"BUY", "SELL", "BUY", "AAPL", "150", "SELL", "GOOGL", "75">>

\* Mutant of GenerateAttempts: a raising generation call is tried once more
GenerateAttemptsRetry(gen) == IF gen.kind = "raise" THEN 2 ELSE 1

\* How many times make_decision calls generate_for_node: the one call of its
\* try block, whose except branch returns
GenerateAttempts(gen) == 1

\* The calls make_decision makes, in order, the generation call ending as `gen`
MakeDecisionCalls(state, gen) ==
    [i \in 1..GenerateAttempts(gen) |-> "generate_for_node"]
        \o (IF gen.kind = "raise"
            THEN <<"_fallback_decision">>
            ELSE IF ParseDecision(gen.value, state).kind = "raise"
            THEN <<"_parse_decision">>
            ELSE <<"_parse_decision", "_update_history">>)

\* make_decision(state), the generation call ending as `gen`
MakeDecision(state, gen) ==
    LET count == decision_count + 1
        outcome == MakeDecisionOutcome(count, state, gen)
    IN  /\ decision_count' = count
        /\ gen_raised' = IF gen.kind = "raise" THEN gen_raised + 1 ELSE gen_raised
        /\ last_call' = [state |-> state, gen |-> gen, outcome |-> outcome,
                         calls |-> MakeDecisionCalls(state, gen),
                         portfolio_history_summary |->
                             PortfolioHistorySummary(portfolio_history)]
        /\ IF gen.kind = "return" /\ outcome.kind = "return"
           THEN UpdateHistory(count, state, outcome.value.decision, gen.value)
           ELSE SkipHistory(count, state)

NoCall ==
    [state |-> EmptyDict, gen |-> [kind |-> "none"], outcome |-> [kind |-> "none"],
     calls |-> <<>>, portfolio_history_summary |-> <<>>]

EngineInit ==
    /\ decision_count = 0
    /\ decision_history = <<>>
    /\ market_history = <<>>
    /\ portfolio_history = <<>>
    /\ last_call = NoCall
    /\ gen_raised = 0
----------------------------------------------------------------------------
(* The generation backends behind SharedLLMManager.generate_for_node *)

\* What happens inside a backend's generate: load_model raises before the try
\* block, the model call raises inside it, or the model call gives a text
BackendRuns(texts) ==
    {[kind |-> "load_error"], [kind |-> "error"]} \cup {[kind |-> "text", text |-> t] : t \in texts}

\* The text of the LLMResponse HuggingFaceLLM.generate returns from its except
\* branch: "shengchengshibai" stands for its Chinese prefix (generation failed)
\* and "timeout" for str(e)
HuggingFaceErrorText == <<"shengchengshibai", "timeout">>

\* The same for OpenAILLM.generate (API call failed)
OpenAIErrorText == <<"APIdiaoyongshibai", "timeout">>

\* HuggingFaceLLM.generate(prompt, **kwargs), as response.text
HuggingFaceGenerate(run) ==
    CASE run.kind = "load_error" -> Raise("RuntimeError")
      [] run.kind = "error" -> Return(HuggingFaceErrorText)
      [] OTHER -> Return(run.text)

\* Mutant of HuggingFaceDecoded: the newly generated part only
HuggingFaceDecodedNewOnly(prompt, continuation) == continuation

\* generated_text of HuggingFaceLLM.generate: outputs[0], the input ids
\* followed by the new ones, decoded as a whole and taken as the response
HuggingFaceDecoded(prompt, continuation) == prompt \o continuation

\* OpenAILLM.generate(prompt, **kwargs), as response.text: load_model does not
\* raise, a missing client fails inside the try block
OpenAIGenerate(run) ==
    CASE run.kind \in {"load_error", "error"} -> Return(OpenAIErrorText)
      [] OTHER -> Return(run.text)

----------------------------------------------------------------------------
(* SharedLLMManager: one backend shared by the registered nodes, its methods
   called by several threads *)

\* How many threads call the manager
MaxThreads == 2

\* How many generate_for_node and update_shared_parameters calls they make
MaxManagerCalls == 3

\* How many of these calls they make next to direct calls of the backend
MaxPlainCalls == 2

Threads == 1..MaxThreads

NodeIds == {"trading_decision", "risk_analysis"}

\* The config of the demo's node (temperature in tenths) and an empty one
DemoNodeConfig ==
    [role |-> "trading-expert", reasoning_type |-> "strategic", temperature |-> 7,
     max_length |-> 512]

NodeConfigs == {EmptyDict, DemoNodeConfig}

\* The keyword arguments of make_decision's call, and two more
DemoCallKwargs ==
    [temperature |-> 7, max_new_tokens |-> 128, do_sample |-> TRUE, pad_token_id |-> None]

CallKwargs == {EmptyDict, DemoCallKwargs, [temperature |-> 2, max_length |-> 64]}

\* Mutant of MergeKwargs: {**kwargs, **node_config}
MergeKwargsConfigWins(node_config, kwargs) ==
    [k \in DOMAIN node_config \cup DOMAIN kwargs |->
        IF k \in DOMAIN node_config THEN node_config[k] ELSE kwargs[k]]

\* merged_kwargs = {**node_config, **kwargs}
MergeKwargs(node_config, kwargs) ==
    [k \in DOMAIN node_config \cup DOMAIN kwargs |->
        IF k \in DOMAIN kwargs THEN kwargs[k] ELSE node_config[k]]

IdleThread ==
    [pc |-> "idle", op |-> "none", node |-> "none", args |-> EmptyDict, passed |-> EmptyDict,
     result |-> "none"]

\* The backend before load_model: HuggingFaceLLM.__init__
Unloaded == [model_loaded |-> FALSE, model |-> None, tokenizer |-> None]

\* The backend after a load_model that returned
Loaded == [model_loaded |-> TRUE, model |-> "model", tokenizer |-> "tokenizer"]

\* SharedLLMManager.__init__
ManagerInit ==
    /\ registered_nodes = EmptyDict
    /\ node_usage_stats = EmptyDict
    /\ total_generations = 0
    /\ total_updates = 0
    /\ lock = 0
    /\ llm_lock = 0
    /\ llm = Unloaded
    /\ threads = [t \in Threads |-> IdleThread]

\* The manager after LLMDecisionMaker.__init__ registered its node
ManagerOfDemo ==
    /\ registered_nodes = [n \in {"trading_decision"} |-> DemoNodeConfig]
    /\ node_usage_stats = [n \in {"trading_decision"} |-> 0]
    /\ total_generations = 0
    /\ total_updates = 0
    /\ lock = 0
    /\ llm_lock = 0
    /\ llm = Unloaded
    /\ threads = [t \in Threads |-> IdleThread]

\* The methods of the manager that take its lock, and those of the backend
ManagerOps ==
    {"register_node", "generate_for_node", "update_shared_parameters", "get_global_stats",
     "get_node_stats"}

BackendOps == {"generate", "update_parameters", "get_parameters"}

\* The generate and update calls made so far or under way
ManagerCallsMade ==
    total_generations + total_updates
        + Cardinality({t \in Threads : /\ threads[t].op \in {"generate_for_node",
                                                              "update_shared_parameters"}
                                       /\ threads[t].pc # "done"})

\* Thread t has made a call and stands at position `at` of it
Called(t, at, op, node, args) ==
    threads' = [threads EXCEPT ![t] =
                   [pc |-> at, op |-> op, node |-> node, args |-> args, passed |-> EmptyDict,
                    result |-> "none"]]

\* A thread calls register_node(node, config), generate_for_node(node, prompt,
\* **kwargs), update_shared_parameters(gradients), get_global_stats() or
\* get_node_stats(node) and comes to `with self.lock`; the configs and the
\* keyword arguments are drawn from the given sets, and at most `calls`
\* generate and update calls are made
ManagerCallWith(t, configs, kwargs_of_calls, calls) ==
    /\ threads[t].pc = "idle"
    /\ \/ \E node \in NodeIds, config \in configs :
             Called(t, "waiting", "register_node", node, config)
       \/ /\ ManagerCallsMade < calls
          /\ \E node \in NodeIds, kwargs \in kwargs_of_calls :
                Called(t, "waiting", "generate_for_node", node, kwargs)
       \/ /\ ManagerCallsMade < calls
          /\ Called(t, "waiting", "update_shared_parameters", "none", EmptyDict)
       \/ Called(t, "waiting", "get_global_stats", "none", EmptyDict)
       \/ \E node \in NodeIds : Called(t, "waiting", "get_node_stats", node, EmptyDict)
    /\ UNCHANGED <<registered_nodes, node_usage_stats, total_generations, total_updates, lock,
                   llm_lock, llm>>
    /\ UNCHANGED <<engine_vars, driver_vars, fn_vars>>

\* The calls with the demo's configs and keyword arguments among them
ManagerCall(t) == ManagerCallWith(t, NodeConfigs, CallKwargs, MaxManagerCalls)

\* The calls without configs and keyword arguments
PlainCall(t) == ManagerCallWith(t, {EmptyDict}, {EmptyDict}, MaxPlainCalls)

\* A thread calls the backend itself, without the manager: generate(prompt),
\* update_parameters(gradients) or get_parameters()
BackendCall(t) ==
    /\ threads[t].pc = "idle"
    /\ \/ Called(t, "llm_check", "generate", "none", EmptyDict)
       \/ Called(t, "llm_waiting", "update_parameters", "none", EmptyDict)
       \/ Called(t, "llm_waiting", "get_parameters", "none", EmptyDict)
    /\ UNCHANGED <<registered_nodes, node_usage_stats, total_generations, total_updates, lock,
                   llm_lock, llm>>
    /\ UNCHANGED <<engine_vars, driver_vars, fn_vars>>

\* Mutant of Acquire: the lock is taken without waiting for it
AcquireUnguarded(t) == lock' = t

\* threading.Lock.acquire, by thread t: it waits while the lock is held
Acquire(t) ==
    /\ lock = 0
    /\ lock' = t

\* The method is left, by return or by exception: the caller has its result
Leave(t, result) ==
    threads' = [threads EXCEPT ![t] = [IdleThread EXCEPT !.pc = "done",
                                                         !.op = threads[t].op,
                                                         !.node = threads[t].node,
                                                         !.result = result]]

\* Mutant of Release: an exception leaves the lock held
ReleaseOnReturn(t, result) ==
    /\ lock' = IF result = "returned" THEN 0 ELSE lock
    /\ Leave(t, result)

\* The end of `with self.lock` of a manager method, by return or by exception
Release(t, result) ==
    /\ lock' = 0
    /\ Leave(t, result)

\* `with self.lock:` of a manager method entered
ManagerEnter(t) ==
    /\ threads[t].pc = "waiting"
    /\ Acquire(t)
    /\ threads' = [threads EXCEPT ![t].pc = "locked"]
    /\ UNCHANGED <<registered_nodes, node_usage_stats, total_generations, total_updates,
                   llm_lock, llm>>
    /\ UNCHANGED <<engine_vars, driver_vars, fn_vars>>

\* The body of the method up to its backend call: register_node writes the
\* node and leaves; generate_for_node and get_node_stats raise ValueError for
\* an unregistered node; generate_for_node merges the kwargs and calls
\* self.llm.generate; get_node_stats returns; update_shared_parameters calls
\* self.llm.update_parameters and get_global_stats self.llm.get_parameters
ManagerBody(t) ==
    /\ threads[t].pc = "locked"
    /\ LET call == threads[t]
       IN  CASE call.op = "register_node" ->
                  /\ registered_nodes' =
                         [n \in DOMAIN registered_nodes \cup {call.node} |->
                             IF n = call.node THEN call.args ELSE registered_nodes[n]]
                  /\ node_usage_stats' =
                         [n \in DOMAIN node_usage_stats \cup {call.node} |->
                             IF n = call.node THEN 0 ELSE node_usage_stats[n]]
                  /\ Release(t, "returned")
             [] call.op = "generate_for_node" ->
                  /\ IF call.node \notin DOMAIN registered_nodes
                     THEN Release(t, "ValueError")
                     ELSE /\ threads' = [threads EXCEPT
                                            ![t].pc = "in_generate",
                                            ![t].passed = MergeKwargs(registered_nodes[call.node],
                                                                      call.args)]
                          /\ UNCHANGED lock
                  /\ UNCHANGED <<registered_nodes, node_usage_stats>>
             [] call.op = "get_node_stats" ->
                  /\ Release(t, IF call.node \notin DOMAIN registered_nodes
                                THEN "ValueError" ELSE "returned")
                  /\ UNCHANGED <<registered_nodes, node_usage_stats>>
             [] call.op = "update_shared_parameters" ->
                  /\ threads' = [threads EXCEPT ![t].pc = "in_update"]
                  /\ UNCHANGED <<registered_nodes, node_usage_stats, lock>>
             [] OTHER ->
                  /\ threads' = [threads EXCEPT ![t].pc = "in_get_parameters"]
                  /\ UNCHANGED <<registered_nodes, node_usage_stats, lock>>
    /\ UNCHANGED <<total_generations, total_updates, llm_lock, llm>>
    /\ UNCHANGED <<engine_vars, driver_vars, fn_vars>>

\* generate(prompt) of the backend, before its lock: `if not self.model_loaded:
\* self.load_model()`; load_model sets model, tokenizer and model_loaded, or
\* raises, and its exception leaves generate and the manager's method
BackendCheck(t) ==
    /\ threads[t].pc \in {"in_generate", "llm_check"}
    /\ \/ /\ threads' = [threads EXCEPT ![t].pc = "llm_waiting"]
          /\ llm' = IF llm.model_loaded THEN llm ELSE Loaded
          /\ UNCHANGED lock
       \/ /\ ~llm.model_loaded
          /\ IF threads[t].op \in ManagerOps
             THEN Release(t, "LoadError")
             ELSE Leave(t, "LoadError") /\ UNCHANGED lock
          /\ UNCHANGED llm
    /\ UNCHANGED <<registered_nodes, node_usage_stats, total_generations, total_updates,
                   llm_lock>>
    /\ UNCHANGED <<engine_vars, driver_vars, fn_vars>>

\* `with self.lock:` of a backend method entered
BackendEnter(t) ==
    /\ threads[t].pc \in {"llm_waiting", "in_update", "in_get_parameters"}
    /\ llm_lock = 0
    /\ llm_lock' = t
    /\ threads' = [threads EXCEPT ![t].pc = "llm_locked"]
    /\ UNCHANGED <<registered_nodes, node_usage_stats, total_generations, total_updates, lock,
                   llm>>
    /\ UNCHANGED <<engine_vars, driver_vars, fn_vars>>

\* Mutant of BackendRelease: the backend's lock stays held
BackendReleaseNever(t) == llm_lock' = llm_lock

\* The end of `with self.lock` of a backend method
BackendRelease(t) == llm_lock' = 0

\* The body of the backend method and the end of its `with self.lock`:
\* generate returns a response, an error text when the model or the tokenizer
\* is gone (its try/except); the others return.  A call made through the
\* manager is back in the manager's method.
BackendBody(t) ==
    /\ threads[t].pc = "llm_locked"
    /\ BackendRelease(t)
    /\ IF threads[t].op \in ManagerOps
       THEN threads' = [threads EXCEPT ![t].pc = "after_backend"]
       ELSE Leave(t, "returned")
    /\ UNCHANGED <<registered_nodes, node_usage_stats, total_generations, total_updates, lock,
                   llm>>
    /\ UNCHANGED <<engine_vars, driver_vars, fn_vars>>

\* Mutant of CountGeneration: the node's own count is left out
CountGenerationTotalOnly(node) ==
    /\ total_generations' = total_generations + 1
    /\ UNCHANGED node_usage_stats

\* generate_for_node's statistics after self.llm.generate returned
CountGeneration(node) ==
    /\ node_usage_stats' = [node_usage_stats EXCEPT ![node] = @ + 1]
    /\ total_generations' = total_generations + 1

\* The backend call has returned: the statistics are updated and the
\* manager's method returns
ManagerBackendDone(t) ==
    /\ threads[t].pc = "after_backend"
    /\ CASE threads[t].op = "generate_for_node" ->
              /\ CountGeneration(threads[t].node)
              /\ UNCHANGED total_updates
         [] threads[t].op = "update_shared_parameters" ->
              /\ total_updates' = total_updates + 1
              /\ UNCHANGED <<node_usage_stats, total_generations>>
         [] OTHER ->
              UNCHANGED <<node_usage_stats, total_generations, total_updates>>
    /\ Release(t, "returned")
    /\ UNCHANGED <<registered_nodes, llm_lock, llm>>
    /\ UNCHANGED <<engine_vars, driver_vars, fn_vars>>

\* unload_model() of the backend, called on it or through
\* SharedLLMManager.unload_model, which takes no lock: nothing when no model
\* is loaded, else model and tokenizer become None and model_loaded False
UnloadModel(t) ==
    /\ threads[t].pc = "idle"
    /\ llm.model_loaded
    /\ llm' = Unloaded
    /\ UNCHANGED <<registered_nodes, node_usage_stats, total_generations, total_updates, lock,
                   llm_lock, threads>>
    /\ UNCHANGED <<engine_vars, driver_vars, fn_vars>>

\* The caller goes on after its call
ManagerReturn(t) ==
    /\ threads[t].pc = "done"
    /\ threads' = [threads EXCEPT ![t] = IdleThread]
    /\ UNCHANGED <<registered_nodes, node_usage_stats, total_generations, total_updates, lock,
                   llm_lock, llm>>
    /\ UNCHANGED <<engine_vars, driver_vars, fn_vars>>

----------------------------------------------------------------------------
(* Inputs *)

\* A dict holding the keys `keys` of the record `full`
MakeDict(keys, full) == [k \in keys |-> full[k]]

Entry(symbol, data) == [symbol |-> symbol, data |-> data]

\* Longest response text of the unit checks, in tokens
MaxTextLen == 3

Tokens ==
    {"mairu", "maichu", "BUY", "buy", "SELL", "AAPL", "aapl", "GOOGL", "MSFT", "0", "150", "MA5"}

Texts == UNION {[1..n -> Tokens] : n \in 0..MaxTextLen}

\* Per-symbol OHLCV dicts: a gain of 5, a gain of 10, no close, a gain of 5 again
MarketData ==
    {[open |-> 100, close |-> 105], [open |-> 50, close |-> 60],
     [open |-> 100], [open |-> 0, close |-> 5]}

\* market_data dicts over AAPL and GOOGL, in both insertion orders
Markets ==
    {<<>>}
    \cup {<<Entry(s, d)>> : s \in {"AAPL", "GOOGL"}, d \in MarketData}
    \cup {<<Entry("AAPL", d), Entry("GOOGL", e)>> : d, e \in MarketData}
    \cup {<<Entry("GOOGL", d), Entry("AAPL", e)>> : d, e \in MarketData}

\* Per-symbol indicator dicts: (buy, sell) scores 1.0/-0.7, -0.7/1.0, 0/0.3,
\* 0.8/0.2 and 0.4/0
IndicatorData ==
    {[rsi |-> 50, ma5 |-> 11, ma20 |-> 10], [rsi |-> 50, ma5 |-> 9, ma20 |-> 10],
     [rsi |-> 80, ma5 |-> 10, ma20 |-> 10], [rsi |-> 50, ma5 |-> 101, ma20 |-> 100],
     [rsi |-> 80, ma5 |-> 11]}

\* technical_indicators dicts over AAPL and GOOGL
IndicatorDicts ==
    {EmptyDict}
    \cup {[s \in {"AAPL"} |-> a] : a \in IndicatorData}
    \cup {[s \in {"GOOGL"} |-> a] : a \in IndicatorData}
    \cup {[s \in {"AAPL", "GOOGL"} |-> IF s = "AAPL" THEN a ELSE b] : a, b \in IndicatorData}

SymbolLists == {<<>>, <<"AAPL">>, <<"MSFT">>, <<"AAPL", "GOOGL">>, <<"GOOGL", "AAPL">>}

Portfolios ==
    {[cash |-> 1000, positions |-> EmptyDict],
     [cash |-> 1000, positions |-> [s \in {"AAPL"} |-> 10]],
     [cash |-> 1000, positions |-> [s \in {"AAPL", "MSFT"} |-> IF s = "AAPL" THEN 10 ELSE 3]],
     [cash |-> 1000],
     [positions |-> [s \in {"AAPL"} |-> 10]]}

\* A state that varies the symbol list, with and without its keys
SymbolState(keys, syms) ==
    MakeDict(keys, [symbols |-> syms,
                    market_data |-> <<Entry("AAPL", [open |-> 100, close |-> 105])>>])

SymbolStateKeys == SUBSET {"symbols", "market_data"}

\* A state that varies the snapshot and the indicators
MarketState(syms, md, ti) == [symbols |-> syms, market_data |-> md, technical_indicators |-> ti]

\* A state that varies the portfolio
PortfolioState(keys, md, pf) ==
    MakeDict(keys, [symbols |-> <<"AAPL">>, market_data |-> md, portfolio |-> pf])

PortfolioStateKeys ==
    {{"symbols", "market_data", "portfolio"}, {"symbols", "portfolio"}, {"symbols", "market_data"}}

GenerationError == Raise("RuntimeError")

\* Generation outcomes tried with every state: a failure and two texts that
\* match no keyword with a symbol
PlainGens == {GenerationError, Return(<<"hold">>), Return(<<"mairu", "150">>)}

\* (generation outcome, state) pairs of the unit checks
UnitInput(in) ==
    \/ \E t \in Texts, keys \in SymbolStateKeys, syms \in SymbolLists :
          in = [gen |-> Return(t), state |-> SymbolState(keys, syms)]
    \/ \E g \in PlainGens, syms \in SymbolLists, md \in Markets, ti \in IndicatorDicts :
          in = [gen |-> g, state |-> MarketState(syms, md, ti)]
    \/ \E g \in PlainGens, keys \in PortfolioStateKeys, md \in Markets, pf \in Portfolios :
          in = [gen |-> g, state |-> PortfolioState(keys, md, pf)]
    \/ \E keys \in SymbolStateKeys, syms \in SymbolLists :
          in = [gen |-> GenerationError, state |-> SymbolState(keys, syms)]

----------------------------------------------------------------------------
(* Unit checks: one call of one function on one input, on a fresh engine *)

NoResult == [op |-> "none"]

DriverIdle ==
    /\ step = 0
    /\ pc = "idle"
    /\ current_state = EmptyDict
    /\ decision_result = EmptyDict
    /\ frame = EmptyDict
    /\ results = <<>>
    /\ experiences = <<>>
    /\ outer_errors = <<>>

UnitInit ==
    /\ EngineInit
    /\ DriverIdle
    /\ ManagerOfDemo
    /\ UnitInput(fn_in)
    /\ fn_out = NoResult

\* _parse_decision(response.text, state)
UnitParse ==
    /\ fn_out = NoResult
    /\ fn_in.gen.kind = "return"
    /\ fn_out' = [op |-> "parse", outcome |-> ParseDecision(fn_in.gen.value, fn_in.state)]
    /\ UNCHANGED <<engine_vars, driver_vars, fn_in, service_vars>>

\* _parse_decision(response.text, state) on the response of the HuggingFace
\* backend to the engine's prompt, the input's text being what the model
\* generated after it
UnitEcho ==
    /\ fn_out = NoResult
    /\ fn_in.gen.kind = "return"
    /\ fn_out' = [op |-> "parse_echo",
                  outcome |-> ParseDecision(
                                 HuggingFaceDecoded(ConstructDecisionPrompt(fn_in.state),
                                                    fn_in.gen.value),
                                 fn_in.state)]
    /\ UNCHANGED <<engine_vars, driver_vars, fn_in, service_vars>>

\* _fallback_decision(state), on the inputs whose generation call raised
UnitFallback ==
    /\ fn_out = NoResult
    /\ fn_in.gen.kind = "raise"
    /\ fn_out' = [op |-> "fallback", outcome |-> FallbackDecision(fn_in.state)]
    /\ UNCHANGED <<engine_vars, driver_vars, fn_in, service_vars>>

\* _calculate_portfolio_value(state), once per state
UnitValue ==
    /\ fn_out = NoResult
    /\ fn_in.gen.kind = "raise"
    /\ fn_out' = [op |-> "value", outcome |-> CalculatePortfolioValue(fn_in.state)]
    /\ UNCHANGED <<engine_vars, driver_vars, fn_in, service_vars>>

\* make_decision(state)
UnitMakeDecision ==
    /\ fn_out = NoResult
    /\ MakeDecision(fn_in.state, fn_in.gen)
    /\ fn_out' = [op |-> "make_decision"]
    /\ UNCHANGED <<driver_vars, fn_in, service_vars>>

UnitNext == UnitParse \/ UnitEcho \/ UnitFallback \/ UnitValue \/ UnitMakeDecision

SpecUnit == UnitInit /\ [][UnitNext]_vars
----------------------------------------------------------------------------
(* run_rl_trading_demo: the loop driver *)

\* _calculate_volatility(state): the mean of |p[i] - p[i-1]| / p[i-1] over the
\* closes p of the snapshot, in dict order, times 10 and capped at 1.0; 0.5
\* without two closes or without a positive predecessor
Closes(md) ==
    LET priced == SelectSeq(md, LAMBDA entry : "close" \in DOMAIN entry.data)
    IN  [i \in DOMAIN priced |-> priced[i].data["close"]]

RatAdd(a, b) == <<a[1] * b[2] + b[1] * a[2], a[2] * b[2]>>

Abs(x) == IF x < 0 THEN -x ELSE x

\* <<sum of the returns from position i on, how many there are>>
RECURSIVE ReturnsFrom(_, _)
ReturnsFrom(prices, i) ==
    IF i > Len(prices) THEN <<(<<0, 1>>), 0>>
    ELSE LET rest == ReturnsFrom(prices, i + 1)
         IN  IF prices[i - 1] > 0
             THEN <<RatAdd(<<Abs(prices[i] - prices[i - 1]), prices[i - 1]>>, rest[1]), rest[2] + 1>>
             ELSE rest

CalculateVolatility(state) ==
    LET prices == Closes(Get(state, "market_data", EmptyDict))
        returns == ReturnsFrom(prices, 2)
        scaled == <<returns[1][1] * 10, returns[1][2] * returns[2]>>
    IN  IF Len(prices) < 2 \/ returns[2] = 0 THEN <<1, 2>>
        ELSE IF RatGt(scaled, <<1, 1>>) THEN <<1, 1>> ELSE scaled

\* state_features; a missing "portfolio", "cash", "positions" or "market_data"
\* key is a KeyError
StateFeatures(state, decision) ==
    LET value == CalculatePortfolioValue(state)
    IN  IF value.kind = "raise" THEN value
        ELSE Return([market_volatility |-> CalculateVolatility(state),
                     portfolio_value |-> value.value,
                     cash_ratio |-> <<state["portfolio"]["cash"], 100000>>,
                     position_count |-> Cardinality(DOMAIN state["portfolio"]["positions"]),
                     decision_type |-> IF decision.action = "BUY" THEN 1
                                       ELSE IF decision.action = "SELL" THEN 2 ELSE 0])

\* The number of iterations, `steps`
MaxSteps == 2

\* The states case_generator hands out: a full one, the one of the end-to-end
\* scenario (no indicators, no portfolio), one with an empty symbol list
DriverStates ==
    {[symbols |-> <<"AAPL", "GOOGL">>,
      market_data |-> <<Entry("AAPL", [open |-> 100, close |-> 105]),
                        Entry("GOOGL", [open |-> 50, close |-> 60])>>,
      technical_indicators |-> [s \in {"AAPL"} |-> [rsi |-> 50, ma5 |-> 9, ma20 |-> 10]],
      portfolio |-> [cash |-> 1000, positions |-> [s \in {"AAPL"} |-> 10]]],
     [symbols |-> <<"AAPL">>,
      market_data |-> <<Entry("AAPL", [open |-> 100, close |-> 105])>>],
     [symbols |-> <<>>,
      portfolio |-> [cash |-> 1000, positions |-> EmptyDict],
      market_data |-> EmptyDict]}

\* The texts the model call gives in the driver's runs
DriverTexts == {<<"hold">>, <<"mairu", "150">>, <<"BUY", "AAPL", "150">>}

\* How generate_for_node ends for the registered node: as the backend's
\* generate does
DriverGens ==
    {HuggingFaceGenerate(run) : run \in BackendRuns(DriverTexts)}
        \cup {OpenAIGenerate([kind |-> "error"])}

\* How sandbox.verify_score ends
VerifyOutcomes == {Return(1), Raise("ValueError")}

\* How rl_trainer.add_experience ends
AddExperienceOutcomes == {Return(None), Raise("RuntimeError")}

\* How rl_trainer.update_policy ends
UpdatePolicyOutcomes == {Return([status |-> "updated"]), Raise("RuntimeError")}

NoInput == [gen |-> [kind |-> "none"], state |-> EmptyDict]

Init ==
    /\ EngineInit
    /\ step = 0
    /\ pc = "snapshot"
    /\ current_state = EmptyDict
    /\ decision_result = EmptyDict
    /\ frame = EmptyDict
    /\ results = <<>>
    /\ experiences = <<>>
    /\ outer_errors = <<>>
    /\ fn_in = NoInput
    /\ fn_out = NoResult
    /\ ManagerOfDemo

\* Mutant of NextIteration: the next iteration decides on the snapshot of the
\* last one
NextIterationStale ==
    /\ step' = step + 1
    /\ pc' = "decide"

\* The next iteration of `for step in range(steps)`
NextIteration ==
    /\ step' = step + 1
    /\ pc' = "snapshot"

\* Mutant of OuterHandler: the exception leaves the loop
OuterHandlerAbort(exc, generation) ==
    /\ outer_errors' = Append(outer_errors, [step |-> step, exc |-> exc, generation |-> generation])
    /\ pc' = "aborted"
    /\ UNCHANGED step

\* `except Exception as e` of the iteration (line 850): nothing is recorded in
\* results; outer_errors notes the iteration, the exception and how the
\* iteration's generation call had ended
OuterHandler(exc, generation) ==
    /\ outer_errors' = Append(outer_errors, [step |-> step, exc |-> exc, generation |-> generation])
    /\ NextIteration

\* Mutant of InnerHandler: the failure is only printed
InnerHandlerSilent(exc) ==
    /\ UNCHANGED results
    /\ NextIteration

\* `except Exception as e` of the trade execution (line 837)
InnerHandler(exc) ==
    /\ results' = Append(results,
                         [state |-> current_state,
                          decision |-> [action |-> "HOLD", reasoning |-> exc],
                          score |-> 0, reward |-> 0, error |-> exc])
    /\ NextIteration

\* case = node.sandbox.case_generator(); current_state = case["state"]
Snapshot ==
    /\ pc = "snapshot"
    /\ step < MaxSteps
    /\ \E state \in DriverStates : current_state' = state
    /\ pc' = "decide"
    /\ UNCHANGED <<engine_vars, step, decision_result, frame, results, experiences,
                   outer_errors, fn_vars, service_vars>>

\* decision_result = decision_maker.make_decision(current_state);
\* decision = decision_result["decision"]
Decide ==
    /\ pc = "decide"
    /\ \E gen \in DriverGens :
          LET outcome == MakeDecisionOutcome(decision_count + 1, current_state, gen)
          IN  /\ MakeDecision(current_state, gen)
              /\ IF outcome.kind = "raise"
                 THEN /\ OuterHandler(outcome.exc, gen.kind)
                      /\ UNCHANGED decision_result
                 ELSE IF "decision" \notin DOMAIN outcome.value
                 THEN /\ OuterHandler("KeyError", gen.kind)
                      /\ decision_result' = outcome.value
                 ELSE /\ decision_result' = outcome.value
                      /\ pc' = "score"
                      /\ UNCHANGED <<step, outer_errors>>
    /\ UNCHANGED <<current_state, frame, results, experiences, fn_vars, service_vars>>

\* score = node.sandbox.verify_score(...); reward = score * 10; state_features = {...}
Score ==
    /\ pc = "score"
    /\ \E verified \in VerifyOutcomes :
          LET features == StateFeatures(current_state, decision_result["decision"])
          IN  IF verified.kind = "raise"
              THEN InnerHandler(verified.exc) /\ UNCHANGED frame
              ELSE IF features.kind = "raise"
              THEN /\ InnerHandler(features.exc)
                   /\ frame' = [score |-> verified.value, reward |-> verified.value * 10]
              ELSE /\ frame' = [score |-> verified.value, reward |-> verified.value * 10,
                                state_features |-> features.value]
                   /\ pc' = "add_experience"
                   /\ UNCHANGED <<step, results>>
    /\ UNCHANGED <<engine_vars, current_state, decision_result, experiences, outer_errors, fn_vars, service_vars>>

\* rl_trainer.add_experience(state=state_features, action=json.dumps(decision),
\* reward=reward, done=False)
AddExperience ==
    /\ pc = "add_experience"
    /\ \E added \in AddExperienceOutcomes :
          IF added.kind = "raise"
          THEN InnerHandler(added.exc) /\ UNCHANGED experiences
          ELSE /\ experiences' = Append(experiences,
                                        [state |-> frame["state_features"],
                                         action |-> decision_result["decision"],
                                         reward |-> frame["reward"],
                                         done |-> FALSE])
               /\ pc' = "update_policy"
               /\ UNCHANGED <<step, results>>
    /\ UNCHANGED <<engine_vars, current_state, decision_result, frame, outer_errors, fn_vars, service_vars>>

\* update_result = rl_trainer.update_policy(); results.append(result)
UpdatePolicy ==
    /\ pc = "update_policy"
    /\ \E updated \in UpdatePolicyOutcomes :
          IF updated.kind = "raise"
          THEN InnerHandler(updated.exc)
          ELSE /\ results' = Append(results,
                                    [state |-> current_state,
                                     decision |-> decision_result["decision"],
                                     llm_response |-> decision_result["llm_response"],
                                     score |-> frame["score"],
                                     reward |-> frame["reward"],
                                     rl_update |-> updated.value])
               /\ NextIteration
    /\ UNCHANGED <<engine_vars, current_state, decision_result, frame, experiences,
                   outer_errors, fn_vars, service_vars>>

RECURSIVE SumField(_, _, _)
SumField(records, field, i) ==
    IF i > Len(records) THEN 0
    ELSE Get(records[i], field, 0) + SumField(records, field, i + 1)

\* The final summary, after the loop: total_reward, avg_score (a rational),
\* decision_count
Summary ==
    /\ pc = "snapshot"
    /\ step = MaxSteps
    /\ frame' = [total_reward |-> SumField(results, "reward", 1),
                 avg_score |-> IF results # <<>>
                               THEN <<SumField(results, "score", 1), Len(results)>>
                               ELSE <<0, 1>>,
                 decision_count |-> decision_count]
    /\ pc' = "done"
    /\ UNCHANGED <<engine_vars, step, current_state, decision_result, results, experiences,
                   outer_errors, fn_vars, service_vars>>

Next == Snapshot \/ Decide \/ Score \/ AddExperience \/ UpdatePolicy \/ Summary

Spec == Init /\ [][Next]_vars

----------------------------------------------------------------------------
(* A long run of make_decision calls on one engine *)

\* How many make_decision calls the long run makes
MaxHistCalls == 55

\* How many of them may have a raising generation call
MaxHistFailures == 1

HistState ==
    [symbols |-> <<"AAPL", "GOOGL">>,
     market_data |-> <<Entry("AAPL", [open |-> 100, close |-> 105])>>,
     portfolio |-> [cash |-> 1000, positions |-> [s \in {"AAPL"} |-> 10]]]

HistGens == {GenerationError, Return(<<"hold">>)}

HistInit ==
    /\ EngineInit
    /\ DriverIdle
    /\ fn_in = NoInput
    /\ fn_out = NoResult
    /\ ManagerOfDemo

\* One make_decision(state) call; an exception it raises is swallowed by the caller
HistCall ==
    /\ decision_count < MaxHistCalls
    /\ \E gen \in HistGens :
          /\ gen.kind = "raise" => gen_raised < MaxHistFailures
          /\ MakeDecision(HistState, gen)
    /\ UNCHANGED <<driver_vars, fn_vars, service_vars>>

HistNext == HistCall

SpecHist == HistInit /\ [][HistNext]_vars

----------------------------------------------------------------------------
(* The shared manager under concurrent calls *)

ManagerSpecInit ==
    /\ EngineInit
    /\ DriverIdle
    /\ fn_in = NoInput
    /\ fn_out = NoResult
    /\ ManagerInit

ManagerNext ==
    \E t \in Threads :
        \/ ManagerCall(t)
        \/ ManagerEnter(t)
        \/ ManagerBody(t)
        \/ BackendCheck(t)
        \/ BackendEnter(t)
        \/ BackendBody(t)
        \/ ManagerBackendDone(t)
        \/ ManagerReturn(t)

SpecManager == ManagerSpecInit /\ [][ManagerNext]_vars

----------------------------------------------------------------------------
(* The shared manager and its backend under concurrent calls: threads that
   call the manager, threads that call the backend itself, and unloading *)

BackendNext ==
    \E t \in Threads :
        \/ PlainCall(t)
        \/ BackendCall(t)
        \/ ManagerEnter(t)
        \/ ManagerBody(t)
        \/ BackendCheck(t)
        \/ BackendEnter(t)
        \/ BackendBody(t)
        \/ ManagerBackendDone(t)
        \/ UnloadModel(t)
        \/ ManagerReturn(t)

SpecBackend == ManagerSpecInit /\ [][BackendNext]_vars

\* The steps of a call of thread t after the call was made
ThreadRun(t) ==
    \/ ManagerEnter(t)
    \/ ManagerBody(t)
    \/ BackendCheck(t)
    \/ BackendEnter(t)
    \/ BackendBody(t)
    \/ ManagerBackendDone(t)
    \/ ManagerReturn(t)

\* The scheduler runs every thread that can run, and a thread that waits for
\* a lock gets it when the lock is free again and again
SpecBackendFair ==
    /\ ManagerSpecInit
    /\ [][BackendNext]_vars
    /\ \A t \in Threads :
          /\ WF_vars(ThreadRun(t))
          /\ SF_vars(ManagerEnter(t))
          /\ SF_vars(BackendEnter(t))

----------------------------------------------------------------------------
(* Properties of one call *)

\* The action make_decision handed back in last_call: the fallback's action
\* itself, or the "decision" of the result dict
ReturnedAction ==
    IF last_call.gen.kind = "raise"
    THEN last_call.outcome.value
    ELSE last_call.outcome.value.decision

SymbolsOf(state) == Get(state, "symbols", DefaultSymbols)

\* The configured symbols a text holds, and those its upper-cased form holds
KnownIn(state, text) == {s \in Range(SymbolsOf(state)) : Contains(text, s)}

KnownInUpper(state, text) == {s \in Range(SymbolsOf(state)) : Contains(Upper(text), s)}

\* The first position of a symbol in the configured list
ListPosition(state, s) ==
    CHOOSE i \in DOMAIN SymbolsOf(state) :
        /\ SymbolsOf(state)[i] = s
        /\ \A j \in 1..(i - 1) : SymbolsOf(state)[j] # s

BuyMarker(text) == Contains(text, "mairu") \/ Contains(Upper(text), "BUY")

SellMarker(text) == Contains(text, "maichu") \/ Contains(Upper(text), "SELL")

\* C1: make_decision returns, without raising, an action with a non-empty
\* symbol and an amount > 0, for every state and every outcome of the
\* generation call, a raising one included.
C1_TotalFallback ==
    fn_out.op = "make_decision" =>
        /\ last_call.outcome.kind = "return"
        /\ ReturnedAction.symbol \notin {"", None}
        /\ ReturnedAction.amount > 0

\* C4 as stated: a text holding a buy marker (mairu, or BUY in any case) and a
\* configured symbol parses to BUY of a configured symbol, whatever sell marker
\* it also holds.
C4_BuyMarkerAlwaysWins ==
    (/\ fn_out.op = "parse"
     /\ BuyMarker(fn_in.gen.value)
     /\ KnownIn(fn_in.state, fn_in.gen.value) # {})
    => /\ fn_out.outcome.kind = "return"
       /\ fn_out.outcome.value.action = "BUY"
       /\ fn_out.outcome.value.symbol \in KnownInUpper(fn_in.state, fn_in.gen.value)

\* C4 amended: the text parses to BUY of a configured symbol it holds when it
\* holds mairu and a configured symbol, whatever else it holds, and when it
\* holds BUY in any case and, upper-cased, a configured symbol, unless it holds
\* maichu together with a configured symbol: the Chinese sell keyword is
\* tried before the English buy keyword.
C4_ParsingPriority ==
    LET text == fn_in.gen.value
        chinese_buy == Contains(text, "mairu") /\ KnownIn(fn_in.state, text) # {}
        chinese_sell == Contains(text, "maichu") /\ KnownIn(fn_in.state, text) # {}
        english_buy == Contains(Upper(text), "BUY") /\ KnownInUpper(fn_in.state, text) # {}
    IN  (fn_out.op = "parse" /\ (chinese_buy \/ (english_buy /\ ~chinese_sell)))
        => /\ fn_out.outcome.kind = "return"
           /\ fn_out.outcome.value.action = "BUY"
           /\ fn_out.outcome.value.symbol \in KnownInUpper(fn_in.state, text)

\* C4 witness: mairu, a symbol and an English sell marker in one text, parsed to BUY
C4_Witness ==
    /\ fn_out.op = "parse"
    /\ Contains(fn_in.gen.value, "mairu")
    /\ Contains(fn_in.gen.value, "SELL")
    /\ KnownIn(fn_in.state, fn_in.gen.value) # {}
    /\ fn_out.outcome.kind = "return"
    /\ fn_out.outcome.value.action = "BUY"

\* C5: when the text holds an action keyword and more than one configured
\* symbol, the parsed symbol is the one of them that comes first in
\* state["symbols"]: it occurs in the text (in some case) and no configured
\* symbol the text holds precedes it in the list; the order of the symbols in
\* the text plays no part.
C5_FirstListedSymbol ==
    LET text == fn_in.gen.value
        known == KnownIn(fn_in.state, text)
    IN  (/\ fn_out.op = "parse"
         /\ BuyMarker(text) \/ SellMarker(text)
         /\ Cardinality(known) > 1)
        => /\ fn_out.outcome.kind = "return"
           /\ fn_out.outcome.value.symbol \in KnownInUpper(fn_in.state, text)
           /\ \A s \in known :
                 ListPosition(fn_in.state, fn_out.outcome.value.symbol)
                     <= ListPosition(fn_in.state, s)
           /\ KnownInUpper(fn_in.state, text) = known =>
                 \A s \in known \ {fn_out.outcome.value.symbol} :
                     ListPosition(fn_in.state, fn_out.outcome.value.symbol)
                         < ListPosition(fn_in.state, s)

\* C5 witness: the parsed symbol is first in the list and not first in the text
C5_Witness ==
    /\ fn_out.op = "parse"
    /\ BuyMarker(fn_in.gen.value) \/ SellMarker(fn_in.gen.value)
    /\ Cardinality(KnownIn(fn_in.state, fn_in.gen.value)) > 1
    /\ fn_out.outcome.kind = "return"
    /\ \E i, j \in DOMAIN fn_in.gen.value :
          /\ i < j
          /\ fn_in.gen.value[i] \in KnownIn(fn_in.state, fn_in.gen.value)
          /\ fn_in.gen.value[i] # fn_out.outcome.value.symbol
          /\ fn_in.gen.value[j] = fn_out.outcome.value.symbol
          /\ \A k \in 1..(i - 1) : fn_in.gen.value[k] # fn_out.outcome.value.symbol
\* cash + the sum of quantity * close, summed over the snapshot's entries whose
\* symbol is held and whose data has a close
RECURSIVE PricedHoldings(_, _, _)
PricedHoldings(positions, market_data, i) ==
    IF i > Len(market_data) THEN 0
    ELSE (IF market_data[i].symbol \in DOMAIN positions /\ "close" \in DOMAIN market_data[i].data
          THEN positions[market_data[i].symbol] * market_data[i].data["close"]
          ELSE 0)
         + PricedHoldings(positions, market_data, i + 1)

ExpectedValue(state) ==
    LET portfolio == Get(state, "portfolio", EmptyDict)
    IN  Get(portfolio, "cash", 0)
        + PricedHoldings(Get(portfolio, "positions", EmptyDict),
                         Get(state, "market_data", EmptyDict), 1)

HoldsTenAAPL(state) ==
    /\ "portfolio" \in DOMAIN state
    /\ state["portfolio"] = [cash |-> 1000, positions |-> [s \in {"AAPL"} |-> 10]]

\* C7: the total value of a portfolio history record, and the portfolio_value
\* that _calculate_portfolio_value returns for the experience features, is
\* cash plus quantity * close over the held symbols the snapshot prices with a
\* close; a held symbol the snapshot lacks adds nothing and raises nothing.
\* With cash 1000 and 10 AAPL: 1050 at close 5, 1000 when AAPL is absent.
C7_PortfolioValuation ==
    /\ fn_out.op = "make_decision" =>
          \A i \in DOMAIN portfolio_history :
              /\ portfolio_history[i].total_value = ExpectedValue(last_call.state)
              /\ HoldsTenAAPL(last_call.state) =>
                    LET md == Get(last_call.state, "market_data", EmptyDict)
                    IN  /\ ~HasKey(md, "AAPL") => portfolio_history[i].total_value = 1000
                        /\ md = <<Entry("AAPL", [open |-> 0, close |-> 5])>> =>
                              portfolio_history[i].total_value = 1050
    /\ fn_out.op = "value" =>
          IF {"portfolio", "market_data"} \subseteq DOMAIN fn_in.state
             /\ {"cash", "positions"} \subseteq DOMAIN fn_in.state["portfolio"]
          THEN fn_out.outcome = Return(ExpectedValue(fn_in.state))
          ELSE fn_out.outcome.kind = "raise"

\* C7 witness: a record valued 1000 for cash 1000 and 10 AAPL that the snapshot,
\* which prices GOOGL, does not price
C7_Witness ==
    /\ fn_out.op = "make_decision"
    /\ Len(portfolio_history) = 1
    /\ HoldsTenAAPL(last_call.state)
    /\ "market_data" \in DOMAIN last_call.state
    /\ HasKey(last_call.state["market_data"], "GOOGL")
    /\ ~HasKey(last_call.state["market_data"], "AAPL")
    /\ portfolio_history[1].total_value = 1000

\* No symbol of the snapshot scores above the threshold, to buy or to sell
NoScoreAboveThreshold(state) ==
    \A i \in DOMAIN state["market_data"] :
        LET ind == Indicators(state, state["market_data"][i].symbol)
        IN  ~RatGt(BuyScore(ind), Threshold) /\ ~RatGt(SellScore(ind), Threshold)

\* C8: when the generation call raises and the state has market data of which
\* no symbol scores above 0.3, make_decision gives BUY, amount 100, of a
\* snapshot symbol with the largest close minus open; for symbols [AAPL],
\* AAPL open 100 close 105 and no indicators that is BUY AAPL 100.
C8_FallbackScenario ==
    (/\ fn_out.op = "make_decision"
     /\ last_call.gen.kind = "raise"
     /\ Get(last_call.state, "market_data", EmptyDict) # EmptyDict
     /\ NoScoreAboveThreshold(last_call.state))
    => LET md == last_call.state["market_data"]
       IN  /\ last_call.outcome.kind = "return"
           /\ last_call.outcome.value.action = "BUY"
           /\ last_call.outcome.value.amount = 100
           /\ HasKey(md, last_call.outcome.value.symbol)
           /\ \A i \in DOMAIN md :
                 Gain(md[i].data) <= Gain(Item(md, last_call.outcome.value.symbol))
           /\ (md = <<Entry("AAPL", [open |-> 100, close |-> 105])>>
               /\ SymbolsOf(last_call.state) = <<"AAPL">>)
              => last_call.outcome.value.symbol = "AAPL"

\* C8 witness: the scenario with two priced symbols of different gains, none
\* scoring above the threshold
C8_Witness ==
    /\ fn_out.op = "make_decision"
    /\ last_call.gen.kind = "raise"
    /\ "market_data" \in DOMAIN last_call.state
    /\ Len(last_call.state["market_data"]) = 2
    /\ Gain(last_call.state["market_data"][1].data) < Gain(last_call.state["market_data"][2].data)
    /\ NoScoreAboveThreshold(last_call.state)
    /\ last_call.outcome.kind = "return"
    /\ last_call.outcome.value.symbol = last_call.state["market_data"][2].symbol

\* C9: every record of decision_history has an action BUY or SELL, an amount
\* > 0 and a non-empty symbol that is one of state["symbols"].
C9_DecisionRecordInvariant ==
    fn_out.op = "make_decision" =>
        \A i \in DOMAIN decision_history :
            /\ decision_history[i].decision.action \in {"BUY", "SELL"}
            /\ decision_history[i].decision.amount > 0
            /\ decision_history[i].decision.symbol # ""
            /\ decision_history[i].decision.symbol \in Range(SymbolsOf(last_call.state))
----------------------------------------------------------------------------
(* Properties of runs *)

\* A buffer's step from `old` to `new`: one record appended at the end with,
\* beyond the cap, the oldest records dropped and the others kept in their
\* order; the buffer is left as it was only by a step that is not a call that
\* reached _update_history
OldestFirst(old, new, cap) ==
    \/ /\ new = old
       /\ \/ decision_count' = decision_count
          \/ last_call'.gen.kind # "return"
          \/ last_call'.outcome.kind # "return"
    \/ /\ Len(new) = Min(Len(old) + 1, cap)
       /\ SubSeq(new, 1, Len(new) - 1) = SubSeq(old, Len(old) - Len(new) + 2, Len(old))
       /\ new[Len(new)].step = decision_count'

WithinCaps ==
    /\ Len(decision_history) <= 50
    /\ Len(market_history) <= 30
    /\ Len(portfolio_history) <= 30

\* C2: between make_decision calls the decision history holds at most 50
\* records and the market and portfolio histories at most 30 each, and a call
\* that overflows a buffer removes its oldest records, the others keeping their
\* order.
C2_HistoryCap ==
    /\ []WithinCaps
    /\ [][/\ OldestFirst(decision_history, decision_history', 50)
          /\ OldestFirst(market_history, market_history', 30)
          /\ OldestFirst(portfolio_history, portfolio_history', 30)]_vars

\* C2 witness: all three buffers are full and have evicted
C2_Witness ==
    /\ Len(decision_history) = 50
    /\ decision_history[1].step > 1
    /\ Len(market_history) = 30
    /\ market_history[1].step > Len(decision_history) - 30 + 1
    /\ Len(portfolio_history) = 30
    /\ gen_raised = 0

\* The records of the last min(n, cap) of n calls, by their step
LastCalls(history, n, cap) ==
    /\ Len(history) = Min(n, cap)
    /\ \A i \in DOMAIN history : history[i].step = n - Len(history) + i

\* C3: after N make_decision calls, whichever of their generation calls
\* raised, each buffer holds the records of the last min(N, cap) calls in call
\* order; after 55 calls the decision buffer holds steps 6..55.
C3_HistoryContents ==
    /\ LastCalls(decision_history, decision_count, 50)
    /\ LastCalls(market_history, decision_count, 30)
    /\ LastCalls(portfolio_history, decision_count, 30)
    /\ decision_count = 55 =>
          [i \in DOMAIN decision_history |-> decision_history[i].step] = [i \in 1..50 |-> i + 5]

\* The text matches no keyword together with a symbol
NoExplicitMatch(text, state) ==
    /\ ~(Contains(text, "mairu") /\ KnownIn(state, text) # {})
    /\ ~(Contains(text, "maichu") /\ KnownIn(state, text) # {})
    /\ ~(Contains(Upper(text), "BUY") /\ KnownInUpper(state, text) # {})
    /\ ~(Contains(Upper(text), "SELL") /\ KnownInUpper(state, text) # {})

\* The results whose decision was parsed from a text that matched no keyword
CascadeResults ==
    {i \in DOMAIN results :
        /\ "llm_response" \in DOMAIN results[i]
        /\ NoExplicitMatch(results[i].llm_response, results[i].state)}

C10_FailureNotPropagated ==
    \A i \in DOMAIN outer_errors : outer_errors[i].generation # "raise"
----------------------------------------------------------------------------
(* Properties of the generation call *)

\* The generation call of the last make_decision failed: generate_for_node
\* raised, or the backend's model call failed inside generate
GenerationFailed ==
    \/ last_call.gen.kind = "raise"
    \/ /\ last_call.gen.kind = "return"
       /\ last_call.gen.value \in {HuggingFaceErrorText, OpenAIErrorText}

\* C11: whenever the generation call of make_decision fails, a raising
\* generate_for_node and a backend error inside HuggingFaceLLM.generate or
\* OpenAILLM.generate alike, the action comes from _fallback_decision and no
\* text is parsed.
C11_FallbackOnAnyFailure ==
    GenerationFailed =>
        /\ Contains(last_call.calls, "_fallback_decision")
        /\ ~Contains(last_call.calls, "_parse_decision")
        /\ last_call.outcome = FallbackDecision(last_call.state)
----------------------------------------------------------------------------
(* Properties of the loop driver *)

\* How far the driver has come: whole iterations, then the position in the
\* iteration
DriverProgress(n, position) ==
    6 * n + (CASE position = "snapshot" -> 0
               [] position = "decide" -> 1
               [] position = "score" -> 2
               [] position = "add_experience" -> 3
               [] position = "update_policy" -> 4
               [] OTHER -> 5)

\* C12: run_rl_trading_demo(steps = MaxSteps) runs all MaxSteps iterations and
\* then its final summary, whatever the generation call, make_decision, the
\* scoring or the policy updater raise: the driver is always at a step of the
\* loop or at the summary, where it is not at the summary and not about to
\* decide it has a next step (the decision step is total), every step takes
\* it further, and at the summary every iteration has ended in a result
\* record or in the per-step handler.
C12_LoopCompletion ==
    /\ [](/\ pc \in {"snapshot", "decide", "score", "add_experience", "update_policy", "done"}
          /\ step <= MaxSteps
          /\ \/ pc \in {"decide", "done"}
             \/ ENABLED (Snapshot \/ Score \/ AddExperience \/ UpdatePolicy \/ Summary)
          /\ pc = "done" => step = MaxSteps /\ Len(results) + Len(outer_errors) = MaxSteps)
    /\ [][DriverProgress(step', pc') > DriverProgress(step, pc)]_vars

\* C12 witness: the summary is reached after an iteration that ended in the
\* per-step handler and one that ended in the execution handler
C12_Witness ==
    /\ pc = "done"
    /\ outer_errors # <<>>
    /\ \E i \in DOMAIN results : "error" \in DOMAIN results[i]
    /\ decision_count = MaxSteps
\* The exceptions sandbox.verify_score raises in the runs
VerifyErrors == {v.exc : v \in {w \in VerifyOutcomes : w.kind = "raise"}}

\* C13: a scoring step that fails (verify_score raises, or the state features
\* computed after it do) appends one result record with score 0 and reward 0
\* whose error field is the exception and which has no policy update, leaves
\* the submitted experiences as they were, and hands over to the next
\* iteration.
C13_ExecutionFailure ==
    [][(pc = "score" /\ pc' # "add_experience") =>
          /\ Len(results') = Len(results) + 1
          /\ SubSeq(results', 1, Len(results)) = results
          /\ LET record == results'[Len(results')]
             IN  /\ record.score = 0
                 /\ record.reward = 0
                 /\ "error" \in DOMAIN record
                 /\ record.error \in VerifyErrors \cup {"KeyError"}
                 /\ "rl_update" \notin DOMAIN record
                 /\ record.state = current_state
          /\ experiences' = experiences
          /\ step' = step + 1
          /\ pc' = "snapshot"]_vars

\* C13 witness: verify_score raised in the first iteration and the second
\* iteration ran to its policy update
C13_Witness ==
    /\ Len(results) = 2
    /\ "error" \in DOMAIN results[1]
    /\ results[1].error \in VerifyErrors
    /\ "rl_update" \in DOMAIN results[2]
    /\ Len(experiences) = 1
\* The action make_decision returned, when it returned one: the fallback's
\* action itself, or the parsed action inside the result dict
LastAction ==
    IF "decision" \in DOMAIN last_call.outcome.value
    THEN last_call.outcome.value.decision
    ELSE last_call.outcome.value

\* C14: every action make_decision returns, and every decision stored in a
\* result record of the loop, is a BUY or a SELL.
C14_NoHoldOutcome ==
    /\ last_call.outcome.kind = "return" => LastAction.action \in {"BUY", "SELL"}
    /\ \A i \in DOMAIN results : results[i].decision.action \in {"BUY", "SELL"}
\* The positions the driver can go to from `position`: the next call of the
\* iteration, or the start of the next iteration (the summary, from there)
Successors(position) ==
    CASE position = "snapshot" -> {"decide", "done"}
      [] position = "decide" -> {"score", "snapshot"}
      [] position = "score" -> {"add_experience", "snapshot"}
      [] position = "add_experience" -> {"update_policy", "snapshot"}
      [] position = "update_policy" -> {"snapshot"}
      [] OTHER -> {}

\* C15: in every iteration the driver calls case_generator, make_decision,
\* verify_score, add_experience and update_policy in this order, each at most
\* once, the last two only after verify_score returned, and an iteration
\* starts (with its snapshot) only when the one before has ended.
C15_IterationOrdering ==
    [][/\ pc' \in Successors(pc)
       /\ step' = (IF pc' = "snapshot" THEN step + 1 ELSE step)
       /\ current_state' # current_state => pc = "snapshot"
       /\ decision_count' # decision_count =>
             pc = "decide" /\ decision_count' = decision_count + 1
       /\ pc' = "add_experience" => "score" \in DOMAIN frame'
       /\ experiences' # experiences =>
             /\ pc = "add_experience"
             /\ Len(experiences') = Len(experiences) + 1
             /\ pc' = "update_policy"
       /\ (Len(results') > Len(results) /\ "rl_update" \in DOMAIN results'[Len(results')]) =>
             pc = "update_policy" /\ Len(experiences) >= Cardinality(
                 {i \in DOMAIN results' : "rl_update" \in DOMAIN results'[i]})]_vars

\* C15 witness: two iterations ran through all five calls
C15_Witness ==
    /\ pc = "snapshot"
    /\ step = 2
    /\ Len(experiences) = 2
    /\ \A i \in DOMAIN results : "rl_update" \in DOMAIN results[i]
    /\ Len(results) = 2
\* How many of the calls of the last make_decision went to `callee`
CallsTo(callee) == Cardinality({i \in DOMAIN last_call.calls : last_call.calls[i] = callee})

----------------------------------------------------------------------------
(* Properties of the shared manager *)

\* The threads inside a backend call made through the manager
InBackend ==
    {t \in Threads : /\ threads[t].op \in ManagerOps
                     /\ threads[t].pc \in {"in_generate", "in_update", "llm_waiting",
                                            "llm_locked"}}

\* C17: the keyword arguments generate_for_node passes to the backend for a
\* registered node are the node's config overlaid with the call's: a key of
\* both has the call's value, a key of one has that one's value.
C17_RoleConfigMerge ==
    \A t \in Threads :
        threads[t].pc = "in_generate" =>
            LET config == registered_nodes[threads[t].node]
                kwargs == threads[t].args
                passed == threads[t].passed
            IN  /\ DOMAIN passed = DOMAIN config \cup DOMAIN kwargs
                /\ \A k \in DOMAIN kwargs : passed[k] = kwargs[k]
                /\ \A k \in DOMAIN config \ DOMAIN kwargs : passed[k] = config[k]

\* C17 witness: a call overrides the temperature of its node's config and
\* keeps the config's role
C17_Witness ==
    \E t \in Threads :
        /\ threads[t].pc = "in_generate"
        /\ registered_nodes[threads[t].node] = DemoNodeConfig
        /\ threads[t].args = [temperature |-> 2, max_length |-> 64]
        /\ threads[t].passed.temperature = 2
        /\ threads[t].passed.role = "trading-expert"

\* C18: at most one thread at a time is inside the backend's generate or
\* update_parameters called through generate_for_node and
\* update_shared_parameters, and that thread holds the manager's lock.
C18_MutualExclusion ==
    /\ Cardinality(InBackend) <= 1
    /\ \A t \in InBackend : lock = t

\* C18 witness: one thread is inside generate while the other waits for the
\* lock to update the parameters
C18_Witness ==
    \E t, u \in Threads :
        /\ threads[t].pc = "in_generate"
        /\ threads[u].pc = "waiting"
        /\ threads[u].op = "update_shared_parameters"
----------------------------------------------------------------------------
(* Properties of a state without symbols *)

\* The state of the last make_decision call has an empty symbol list and no
\* market data
NothingConfigured ==
    /\ last_call.gen.kind # "none"
    /\ "symbols" \in DOMAIN last_call.state
    /\ last_call.state["symbols"] = <<>>
    /\ Get(last_call.state, "market_data", EmptyDict) = EmptyDict

\* C19: for a state with an empty symbol list and no market data,
\* make_decision gives BUY of the placeholder AAPL, amount 100, and does not
\* raise, when the generation call returns a text without a keyword match and
\* when it raises.
C19_PlaceholderDegradation ==
    (/\ NothingConfigured
     /\ \/ last_call.gen.kind = "raise"
        \/ NoExplicitMatch(last_call.gen.value, last_call.state)) =>
        /\ last_call.outcome.kind = "return"
        /\ LastAction.action = "BUY"
        /\ LastAction.symbol = "AAPL"
        /\ LastAction.amount = 100
----------------------------------------------------------------------------
(* Properties of the prompt *)

\* C20: the prompt of a make_decision call lists the last (at most 10)
\* records of portfolio_history, and every listed record that has a record
\* before it in portfolio_history carries its change in percent against that
\* record.
C20_PortfolioHistoryAnnotation ==
    [][decision_count' # decision_count =>
          LET lines == last_call'.portfolio_history_summary
              first == Len(portfolio_history) - Len(lines)
          IN  /\ Len(lines) = Min(Len(portfolio_history), 10)
              /\ \A j \in DOMAIN lines :
                    /\ lines[j].step = portfolio_history[first + j].step
                    /\ lines[j].total_value = portfolio_history[first + j].total_value
                    /\ first + j > 1 =>
                          /\ "change_pct" \in DOMAIN lines[j]
                          /\ lines[j].change_pct =
                                <<(lines[j].total_value
                                      - portfolio_history[first + j - 1].total_value) * 100,
                                  portfolio_history[first + j - 1].total_value>>]_vars
----------------------------------------------------------------------------
(* Properties of the score cascade *)

\* a > b, for rationals with positive denominators
Exceeds(a, b) == a[1] * b[2] > b[1] * a[2]

\* The positions of `symbols` whose symbol is a key of the snapshot
ScoredPositions(state) ==
    LET symbols == SymbolsOf(state)
    IN  {i \in DOMAIN symbols : HasKey(Get(state, "market_data", EmptyDict), symbols[i])}

BuyScoreAt(state, i) == BuyScore(Indicators(state, SymbolsOf(state)[i]))

SellScoreAt(state, i) == SellScore(Indicators(state, SymbolsOf(state)[i]))

\* The best buy score over the scored symbols, -1 when none is above -1
BestBuyScore(state) ==
    LET scores == {BuyScoreAt(state, i) : i \in ScoredPositions(state)} \cup {<<-1, 1>>}
    IN  CHOOSE b \in scores : \A c \in scores : ~Exceeds(c, b)

BestSellScore(state) ==
    LET scores == {SellScoreAt(state, i) : i \in ScoredPositions(state)} \cup {<<-1, 1>>}
    IN  CHOOSE b \in scores : \A c \in scores : ~Exceeds(c, b)

\* The first listed symbols that reach them
BestBuySymbol(state) ==
    LET i == CHOOSE k \in ScoredPositions(state) :
                 /\ ~Exceeds(BestBuyScore(state), BuyScoreAt(state, k))
                 /\ \A j \in ScoredPositions(state) :
                       j < k => Exceeds(BestBuyScore(state), BuyScoreAt(state, j))
    IN  SymbolsOf(state)[i]

BestSellSymbol(state) ==
    LET i == CHOOSE k \in ScoredPositions(state) :
                 /\ ~Exceeds(BestSellScore(state), SellScoreAt(state, k))
                 /\ \A j \in ScoredPositions(state) :
                       j < k => Exceeds(BestSellScore(state), SellScoreAt(state, j))
    IN  SymbolsOf(state)[i]

\* _parse_decision returned for a text without an explicit match and a state
\* with market data
CascadeParsed ==
    /\ fn_out.op = "parse"
    /\ fn_out.outcome.kind = "return"
    /\ NoExplicitMatch(fn_in.gen.value, fn_in.state)
    /\ Get(fn_in.state, "market_data", EmptyDict) # EmptyDict

\* The action comes from step 3
FromScores(action) == action.reasoning \in {"technical-buy", "technical-sell"}

\* C21: for a text without an explicit match and non-empty market data, step
\* 3 gives BUY of the best-buy symbol, amount 100, exactly when the best buy
\* score is above the best sell score and above 0.3; else SELL of the
\* best-sell symbol, amount 100, exactly when the best sell score is above
\* 0.3; else nothing, and step 4 decides.  An emitted symbol is never None.
C21_ScoreStepRule ==
    CascadeParsed =>
        LET action == fn_out.outcome.value
            buy == BestBuyScore(fn_in.state)
            sell == BestSellScore(fn_in.state)
        IN  IF Exceeds(buy, sell) /\ Exceeds(buy, <<3, 10>>)
            THEN /\ FromScores(action)
                 /\ action.action = "BUY"
                 /\ action.symbol = BestBuySymbol(fn_in.state)
                 /\ action.amount = 100
            ELSE IF Exceeds(sell, <<3, 10>>)
            THEN /\ FromScores(action)
                 /\ action.action = "SELL"
                 /\ action.symbol = BestSellSymbol(fn_in.state)
                 /\ action.amount = 100
            ELSE ~FromScores(action)

\* C21 witness: two symbols with equal best scores of 1.0, the second listed
\* one the seller: step 3 sells it
C21_Witness ==
    /\ CascadeParsed
    /\ ~Exceeds(BestBuyScore(fn_in.state), BestSellScore(fn_in.state))
    /\ ~Exceeds(BestSellScore(fn_in.state), BestBuyScore(fn_in.state))
    /\ Exceeds(BestBuyScore(fn_in.state), <<3, 10>>)
    /\ fn_out.outcome.value.action = "SELL"
    /\ fn_out.outcome.value.symbol = SymbolsOf(fn_in.state)[2]
\* _parse_decision returned for a text without an explicit match
PlainParsed ==
    /\ fn_out.op = "parse"
    /\ fn_out.outcome.kind = "return"
    /\ NoExplicitMatch(fn_in.gen.value, fn_in.state)

\* Step 3 emits nothing for the state
NoScoreAction(state) ==
    /\ ~(/\ Exceeds(BestBuyScore(state), BestSellScore(state))
         /\ Exceeds(BestBuyScore(state), <<3, 10>>))
    /\ ~Exceeds(BestSellScore(state), <<3, 10>>)

\* close minus open of a snapshot entry, 0 for a missing price
CloseMinusOpen(entry) ==
    (IF "close" \in DOMAIN entry.data THEN entry.data["close"] ELSE 0)
    - (IF "open" \in DOMAIN entry.data THEN entry.data["open"] ELSE 0)

\* C22: for a text without an explicit match, when step 3 emits nothing,
\* _parse_decision returns BUY, amount 100, of the snapshot symbol with the
\* largest close minus open, the first such in snapshot order, when market
\* data is non-empty; and BUY, amount 100, of the first configured symbol
\* when market data is empty and symbols are configured.
C22_CascadeTail ==
    PlainParsed =>
        LET action == fn_out.outcome.value
            md == Get(fn_in.state, "market_data", EmptyDict)
            symbols == SymbolsOf(fn_in.state)
        IN  /\ (md # EmptyDict /\ NoScoreAction(fn_in.state)) =>
                  /\ action.action = "BUY"
                  /\ action.amount = 100
                  /\ \E k \in DOMAIN md :
                        /\ action.symbol = md[k].symbol
                        /\ \A j \in DOMAIN md : CloseMinusOpen(md[j]) <= CloseMinusOpen(md[k])
                        /\ \A j \in DOMAIN md : j < k => CloseMinusOpen(md[j]) < CloseMinusOpen(md[k])
            /\ (md = EmptyDict /\ symbols # <<>>) =>
                  /\ action.action = "BUY"
                  /\ action.amount = 100
                  /\ action.symbol = symbols[1]

\* C22 witness: two snapshot symbols of equal gain, the first one bought
\* although the configured list names the other one first
C22_Witness ==
    /\ PlainParsed
    /\ NoScoreAction(fn_in.state)
    /\ Len(Get(fn_in.state, "market_data", EmptyDict)) = 2
    /\ CloseMinusOpen(fn_in.state["market_data"][1]) = CloseMinusOpen(fn_in.state["market_data"][2])
    /\ SymbolsOf(fn_in.state) # <<>>
    /\ SymbolsOf(fn_in.state)[1] = fn_in.state["market_data"][2].symbol
    /\ fn_out.outcome.value.symbol = fn_in.state["market_data"][1].symbol
\* C23: for every state with non-empty market data, _fallback_decision
\* returns the action kind, symbol and amount that _parse_decision returns
\* for a text without a keyword match, also when the configured symbols
\* differ from the snapshot keys in membership or order.
C23_FallbackEqualsCascade ==
    (/\ fn_out.op = "fallback"
     /\ Get(fn_in.state, "market_data", EmptyDict) # EmptyDict)
    => LET parsed == ParseDecision(<<"hold">>, fn_in.state)
       IN  /\ fn_out.outcome.kind = "return"
           /\ parsed.kind = "return"
           /\ fn_out.outcome.value.action = parsed.value.action
           /\ fn_out.outcome.value.symbol = parsed.value.symbol
           /\ fn_out.outcome.value.amount = parsed.value.amount
----------------------------------------------------------------------------
(* Properties of the amount of an explicit match *)

\* The value of the first run of digits of a word, -1 for a word without digits
DigitsOf(word) ==
    CASE word = "0" -> 0
      [] word = "150" -> 150
      [] word = "75" -> 75
      [] word = "MA5" -> 5
      [] OTHER -> -1

\* The branch of an explicit match the text takes: "none" without one
MatchedBranch(text, state) ==
    IF Contains(text, "mairu") /\ KnownIn(state, text) # {} THEN "mairu"
    ELSE IF Contains(text, "maichu") /\ KnownIn(state, text) # {} THEN "maichu"
    ELSE IF Contains(Upper(text), "BUY") /\ KnownInUpper(state, text) # {} THEN "BUY"
    ELSE IF Contains(Upper(text), "SELL") /\ KnownInUpper(state, text) # {} THEN "SELL"
    ELSE "none"

\* _parse_decision returned from an explicit match
ExplicitParsed ==
    /\ fn_out.op = "parse"
    /\ fn_out.outcome.kind = "return"
    /\ MatchedBranch(fn_in.gen.value, fn_in.state) # "none"

----------------------------------------------------------------------------
(* Properties of the call counter *)

\* The step values of a buffer
StepsOf(history) == [i \in DOMAIN history |-> history[i].step]

\* Strictly increasing, none beyond the counter
Increasing(steps) ==
    /\ \A i \in DOMAIN steps : steps[i] \in 1..decision_count
    /\ \A i \in DOMAIN steps : i > 1 => steps[i - 1] < steps[i]

\* C25: a make_decision call whose generation call raises increments
\* decision_count by exactly one and leaves the three histories unchanged;
\* every call increments the counter by one, so it counts the calls started;
\* the step values of each buffer are strictly increasing, with gaps where
\* calls failed.
C25_FailedCallEffect ==
    /\ [][decision_count' = decision_count + 1]_vars
    /\ [][last_call'.gen.kind = "raise" =>
              /\ gen_raised' = gen_raised + 1
              /\ UNCHANGED <<decision_history, market_history, portfolio_history>>]_vars
    /\ [](/\ Increasing(StepsOf(decision_history))
          /\ Increasing(StepsOf(market_history))
          /\ Increasing(StepsOf(portfolio_history)))

\* C25 witness: after a failed call between two successful ones, each buffer
\* has a gap in its steps and the counter is ahead of the records
C25_Witness ==
    /\ gen_raised = 1
    /\ last_call.gen.kind = "return"
    /\ \E i \in DOMAIN decision_history :
          i > 1 /\ decision_history[i].step = decision_history[i - 1].step + 2
    /\ \E i \in DOMAIN market_history :
          i > 1 /\ market_history[i].step = market_history[i - 1].step + 2
    /\ \E i \in DOMAIN portfolio_history :
          i > 1 /\ portfolio_history[i].step = portfolio_history[i - 1].step + 2
    /\ decision_count = Len(decision_history) + 1
----------------------------------------------------------------------------
(* Properties of the manager's bookkeeping *)

\* Thread t is inside a manager method that looks up its node, holds the lock,
\* and the node was never registered
AtUnregistered(t) ==
    /\ threads[t].pc = "locked"
    /\ threads[t].op \in {"generate_for_node", "get_node_stats"}
    /\ threads[t].node \notin DOMAIN registered_nodes

\* C26: generate_for_node and get_node_stats for a node id that was never
\* registered raise ValueError without a call of the backend, leave
\* registered_nodes, node_usage_stats, total_generations and total_updates
\* as they were, and release the manager's lock, so that later calls proceed.
C26_UnregisteredNode ==
    /\ [][\A t \in Threads :
              (AtUnregistered(t) /\ threads'[t] # threads[t]) =>
                  /\ threads'[t].pc = "done"
                  /\ threads'[t].result = "ValueError"
                  /\ lock = t
                  /\ lock' = 0
                  /\ UNCHANGED <<registered_nodes, node_usage_stats, total_generations,
                                 total_updates, llm_lock, llm>>]_vars
    /\ [](\A t \in Threads :
              threads[t].result = "ValueError" =>
                  /\ lock # t
                  /\ llm_lock # t
                  /\ threads[t].op \in {"generate_for_node", "get_node_stats"})

\* C26 witness: get_node_stats has raised for one thread, and another thread,
\* which asked to generate for the unregistered node too, has the lock since
C26_Witness ==
    \E t, u \in Threads :
        /\ threads[t].pc = "done"
        /\ threads[t].op = "get_node_stats"
        /\ threads[t].result = "ValueError"
        /\ threads[u].op = "generate_for_node"
        /\ AtUnregistered(u)
        /\ lock = u
\* The sum of the generation counts of the nodes in S
RECURSIVE CountSum(_)
CountSum(S) ==
    IF S = {} THEN 0
    ELSE LET n == CHOOSE m \in S : TRUE
         IN  node_usage_stats[n] + CountSum(S \ {n})

\* The generate_for_node calls that return in this step
GenerateReturns ==
    {t \in Threads : /\ threads[t].pc # "done"
                     /\ threads'[t].pc = "done"
                     /\ threads'[t].op = "generate_for_node"
                     /\ threads'[t].result = "returned"}

\* A register_node call writes a node that is registered already
Reregistration ==
    \E t \in Threads :
        /\ threads[t].pc = "locked"
        /\ threads[t].op = "register_node"
        /\ threads[t].node \in DOMAIN registered_nodes
        /\ threads'[t].pc = "done"

\* C27: after any register_node and generate_for_node calls, also with the
\* backend raising, total_generations is the number of generate_for_node
\* calls that returned (it starts at 0 and a step adds one exactly when such
\* a call returns); every registered node has a usage entry;
\* total_generations is at least the sum of the nodes' generation counts,
\* and equal to it as long as no node id is registered a second time.
C27_GenerationCounts ==
    /\ [][total_generations' = total_generations + Cardinality(GenerateReturns)]_vars
    /\ [](/\ DOMAIN node_usage_stats = DOMAIN registered_nodes
          /\ total_generations >= CountSum(DOMAIN node_usage_stats))
    /\ [][(total_generations = CountSum(DOMAIN node_usage_stats) /\ ~Reregistration) =>
              total_generations' = CountSum(DOMAIN node_usage_stats)']_vars

\* C27 witness: two generations have returned and one has failed in the
\* backend, and a node was registered again after its generation: the total
\* is 2, the sum of the counts 1
C27_Witness ==
    /\ total_generations = 2
    /\ DOMAIN node_usage_stats = NodeIds
    /\ CountSum(NodeIds) = 1
    /\ \E t \in Threads :
          /\ threads[t].op = "generate_for_node"
          /\ threads[t].result = "LoadError"
----------------------------------------------------------------------------
(* Properties of the two locks *)

\* Thread t waits for the manager's lock, for the backend's lock
WaitsForManager(t) == threads[t].pc = "waiting"

WaitsForBackend(t) == threads[t].pc \in {"llm_waiting", "in_update", "in_get_parameters"}

Generating(t) ==
    /\ threads[t].op \in {"generate", "generate_for_node"}
    /\ threads[t].pc \in {"llm_waiting", "llm_locked"}

\* C29: once generate has passed its model_loaded check, no unload_model,
\* called on the backend or through the manager, sets model or tokenizer to
\* None before that generation is through with them.
C29_NoUnloadDuringGenerate ==
    \A t \in Threads :
        Generating(t) => (llm.model # None /\ llm.tokenizer # None)
----------------------------------------------------------------------------
(* Properties of a response that repeats the prompt *)

\* The response text of the echo: the prompt followed by the generated words
EchoText == ConstructDecisionPrompt(fn_in.state) \o fn_in.gen.value

\* The first configured symbol, in list order, among the words of the text
FirstConfiguredIn(state, text) ==
    LET symbols == SymbolsOf(state)
        i == CHOOSE k \in DOMAIN symbols :
                 /\ \E w \in DOMAIN text : TokenUpper(text[w]) = symbols[k]
                 /\ \A j \in DOMAIN symbols :
                       (\E w \in DOMAIN text : TokenUpper(text[w]) = symbols[j]) => k <= j
    IN  symbols[i]

\* The response repeats the prompt, holds neither Chinese keyword, and the
\* prompt names a configured symbol
EchoCase ==
    /\ fn_out.op = "parse_echo"
    /\ ~\E w \in DOMAIN EchoText : EchoText[w] \in {"mairu", "maichu"}
    /\ \E w \in DOMAIN ConstructDecisionPrompt(fn_in.state) :
          ConstructDecisionPrompt(fn_in.state)[w] \in Range(SymbolsOf(fn_in.state))

\* C30: when the response given to _parse_decision contains the engine's
\* prompt and neither Chinese keyword, and a configured symbol occurs in the
\* prompt, _parse_decision returns BUY of the first configured symbol in the
\* text; SELL and steps 3 to 6 are not reached, whatever was generated after
\* the prompt: the action is the one of the English buy branch, whose amount
\* is the first number of the prompt and not the 100 of steps 3 to 6.
C30_PromptEcho ==
    EchoCase =>
        /\ fn_out.outcome.kind = "return"
        /\ fn_out.outcome.value.action = "BUY"
        /\ fn_out.outcome.value.symbol = FirstConfiguredIn(fn_in.state, EchoText)
        /\ fn_out.outcome.value.amount = ExtractAmount(ConstructDecisionPrompt(fn_in.state))
        /\ fn_out.outcome.value.amount # 100

\* C30 witness: the model answers "SELL GOOGL 0" after the prompt, the
\* symbols are GOOGL, AAPL and the indicators favour selling: BUY GOOGL
C30_Witness ==
    /\ EchoCase
    /\ fn_in.gen.value = <<"SELL", "GOOGL", "0">>
    /\ SymbolsOf(fn_in.state) = <<"GOOGL", "AAPL">>
    /\ fn_out.outcome.value.action = "BUY"
    /\ fn_out.outcome.value.symbol = "GOOGL"
    /\ fn_out.outcome.value.amount # 0
====
